---- MODULE Spec2Model ----
(***************************************************************************)
(* The spreadsheet-to-schema compiler of api-gateway/src/helpers/          *)
(* policy-engine.ts: XlsxResult (the result aggregator) and XlsxToJson     *)
(* (driver, sheet parser, field reader, condition reader).                 *)
(*                                                                         *)
(* JavaScript values: null and undefined are the distinct strings Null and *)
(* Undef; a flag only ever tested for truthiness (isRef, hidden) is a      *)
(* BOOLEAN, null/undefined being FALSE.                                    *)
(***************************************************************************)
EXTENDS Integers, Sequences, FiniteSets, TLC

VARIABLES
    wbClass,        \* the class of workbook drawn as the input of this parse
    pc,             \* position of XlsxToJson.parse / parseSheet
    sheet,          \* index of the worksheet being parsed (1-based)
    used,           \* worksheets and rows of the workbook read so far
    nRows,          \* number of rows between table.end.r and range.e.r
    ws,             \* the header region of the worksheet being parsed
    row,            \* parseSheet's `row`, counted from table.end.r
    table,          \* parseSheet's `table`
    schema,         \* parseSheet's `schema`
    fields,         \* parseSheet's `fields` (the SchemaField objects of the sheet)
    fieldCache,     \* parseSheet's `fieldCache`: the names that are keys
    conditions,     \* the XlsxSchemaConditions objects created for the sheet
    conditionCache, \* parseSheet's `conditionCache`: references into `conditions`
    xlsxResult,     \* the XlsxResult of the parse
    last,           \* what the last step read and produced
    thrown,         \* number of exceptions raised so far
    escaped,        \* the boundary an exception was propagated through, or "none"
    ops,            \* number of calls the host made on the returned result
    par,            \* the parse invocations in flight at once and their results
    grid            \* a parseSheet call on a worksheet given cell by cell

vars == <<wbClass, pc, sheet, used, nRows, ws, row, table, schema, fields,
          fieldCache, conditions, conditionCache, xlsxResult, last, thrown,
          escaped, ops, par, grid>>

----------------------------------------------------------------------------
(* Bounds of the model *)

\* worksheets plus field rows of a workbook
MaxSize == 4
\* calls the host makes on the result parse returned
MaxOps == 2
\* worksheets of a workbook parsed while another parse is in flight
MaxSheets == 2
\* rows of a worksheet given cell by cell
MaxRow == 4

Null == "null"
Undef == "undefined"

Truthy(v) == v \notin {Null, Undef, ""}

Put(m, k, v) == [x \in DOMAIN m \cup {k} |-> IF x = k THEN v ELSE m[x]]

EmptyMap == [x \in {} |-> Undef]

WsName(i) == "W" \o ToString(i)

----------------------------------------------------------------------------
(* XlsxResult *)

NewResult ==
    [schemas |-> <<>>, tools |-> <<>>, errors |-> <<>>,
     toolsCache |-> EmptyMap, schemaWorksheetCache |-> EmptyMap,
     schemaNameCache |-> EmptyMap, linkCache |-> EmptyMap]

XlsxError(text, worksheet, r) == [text |-> text, worksheet |-> worksheet, row |-> r]

\* target.errors.push(error) / target.errors = [error]
Attach(target, error) == [target EXCEPT !.errors = Append(@, error)]

\* addError leaving the list of the result as it is
addError_TargetOnly(res, error) == res

\* addError without its target: this._errors.push(error)
addError(res, error) == [res EXCEPT !.errors = Append(@, error)]

\* addTool keeping one registry entry for each worksheet
addTool_ByWorksheet(res, worksheet, name, messageId) ==
    LET cache == [name |-> name, iri |-> Undef, toolId |-> messageId]
    IN  [res EXCEPT
            !.toolsCache = Put(@, worksheet,
                [uuid |-> messageId, name |-> messageId, messageId |-> messageId]),
            !.schemaWorksheetCache = Put(@, worksheet, cache),
            !.schemaNameCache = Put(@, "tool-schema:" \o name, cache)]

addTool(res, worksheet, name, messageId) ==
    LET cache == [name |-> name, iri |-> Undef, toolId |-> messageId]
    IN  [res EXCEPT
            !.toolsCache = Put(@, messageId,
                [uuid |-> messageId, name |-> messageId, messageId |-> messageId]),
            !.schemaWorksheetCache = Put(@, worksheet, cache),
            !.schemaNameCache = Put(@, "tool-schema:" \o name, cache)]

\* addSchema registering the schema under its worksheet only
addSchema_WorksheetOnly(res, worksheet, name, s) ==
    LET cache == [name |-> name, iri |-> s.iri, toolId |-> Undef]
    IN  [res EXCEPT
            !.schemas = Append(@, s),
            !.schemaWorksheetCache = Put(@, worksheet, cache)]

addSchema(res, worksheet, name, s) ==
    LET cache == [name |-> name, iri |-> s.iri, toolId |-> Undef]
    IN  [res EXCEPT
            !.schemas = Append(@, s),
            !.schemaWorksheetCache = Put(@, worksheet, cache),
            !.schemaNameCache = Put(@, name, cache)]

\* addErrors(errors): each error is pushed to the list
addErrors(res, errors) == [res EXCEPT !.errors = @ \o errors]

LinkId(n) == "link_" \o ToString(n)

\* addLink naming every link link_0
addLinkId_First(res) == LinkId(0)

\* the id addLink returns
addLinkId(res) == LinkId(Cardinality(DOMAIN res.linkCache))

\* hyperlink: the worksheet of the hyperlink, Undef without a hyperlink
addLink(res, name, hyperlink) ==
    [res EXCEPT !.linkCache =
        Put(@, addLinkId(res),
            [name |-> name,
             worksheet |-> IF Truthy(hyperlink) THEN hyperlink ELSE Null])]

\* clear emptying the errors as well
clear_All(res) == NewResult

\* clear leaving the tool registry as it is
clear_KeepTools(res) ==
    [res EXCEPT
        !.schemas = <<>>, !.tools = <<>>,
        !.schemaWorksheetCache = EmptyMap, !.schemaNameCache = EmptyMap,
        !.linkCache = EmptyMap]

clear(res) ==
    [res EXCEPT
        !.schemas = <<>>, !.tools = <<>>, !.toolsCache = EmptyMap,
        !.schemaWorksheetCache = EmptyMap, !.schemaNameCache = EmptyMap,
        !.linkCache = EmptyMap]

\* schemas.find(s => s.name === cache.name)?.iri
FindIri(schemas, name) ==
    IF \E k \in 1..Len(schemas) : schemas[k].name = name
    THEN schemas[CHOOSE k \in 1..Len(schemas) :
                    /\ schemas[k].name = name
                    /\ \A j \in 1..(k - 1) : schemas[j].name # name].iri
    ELSE Undef

\* the loops of updateTool without the test of the tool id
UpdateCache_Every(cache, tool, schemas) ==
    [k \in DOMAIN cache |-> [cache[k] EXCEPT !.iri = FindIri(schemas, cache[k].name)]]

UpdateCache(cache, tool, schemas) ==
    [k \in DOMAIN cache |->
        IF cache[k].toolId = tool.messageId
        THEN [cache[k] EXCEPT !.iri = FindIri(schemas, cache[k].name)]
        ELSE cache[k]]

\* updateTool propagating the IRIs to the worksheet cache only
updateTool_WorksheetOnly(res, tool, schemas) ==
    [res EXCEPT
        !.tools = Append(@, tool),
        !.toolsCache = Put(@, tool.messageId, tool),
        !.schemaWorksheetCache = UpdateCache(@, tool, schemas)]

updateTool(res, tool, schemas) ==
    [res EXCEPT
        !.tools = Append(@, tool),
        !.toolsCache = Put(@, tool.messageId, tool),
        !.schemaWorksheetCache = UpdateCache(@, tool, schemas),
        !.schemaNameCache = UpdateCache(@, tool, schemas)]

NoCache == [name |-> Undef, iri |-> Undef, toolId |-> Undef]

\* LinkCacheEntry going on to the next key when an entry has no IRI
LinkCacheEntry_SkipEmpty(res, link) ==
    LET tq == "tool-schema:" \o link.name
    IN  IF /\ Truthy(link.worksheet)
           /\ link.worksheet \in DOMAIN res.schemaWorksheetCache
           /\ Truthy(res.schemaWorksheetCache[link.worksheet].iri)
        THEN [found |-> TRUE, cache |-> res.schemaWorksheetCache[link.worksheet]]
        ELSE IF /\ Truthy(link.name) /\ link.name \in DOMAIN res.schemaNameCache
                /\ Truthy(res.schemaNameCache[link.name].iri)
        THEN [found |-> TRUE, cache |-> res.schemaNameCache[link.name]]
        ELSE IF Truthy(link.name) /\ tq \in DOMAIN res.schemaNameCache
        THEN [found |-> TRUE, cache |-> res.schemaNameCache[tq]]
        ELSE [found |-> FALSE, cache |-> NoCache]

\* LinkCacheEntry looking a link up by its plain name before its worksheet
LinkCacheEntry_NameFirst(res, link) ==
    LET tq == "tool-schema:" \o link.name
    IN  IF Truthy(link.name) /\ link.name \in DOMAIN res.schemaNameCache
        THEN [found |-> TRUE, cache |-> res.schemaNameCache[link.name]]
        ELSE IF Truthy(link.worksheet)
                /\ link.worksheet \in DOMAIN res.schemaWorksheetCache
        THEN [found |-> TRUE, cache |-> res.schemaWorksheetCache[link.worksheet]]
        ELSE IF Truthy(link.name) /\ tq \in DOMAIN res.schemaNameCache
        THEN [found |-> TRUE, cache |-> res.schemaNameCache[tq]]
        ELSE [found |-> FALSE, cache |-> NoCache]

\* lines 421-429: whether the link leads to a cache entry, and the entry
LinkCacheEntry(res, link) ==
    LET tq == "tool-schema:" \o link.name
    IN  IF Truthy(link.worksheet)
           /\ link.worksheet \in DOMAIN res.schemaWorksheetCache
        THEN [found |-> TRUE, cache |-> res.schemaWorksheetCache[link.worksheet]]
        ELSE IF ~Truthy(link.name) THEN [found |-> FALSE, cache |-> NoCache]
        ELSE IF link.name \in DOMAIN res.schemaNameCache
        THEN [found |-> TRUE, cache |-> res.schemaNameCache[link.name]]
        ELSE IF tq \in DOMAIN res.schemaNameCache
        THEN [found |-> TRUE, cache |-> res.schemaNameCache[tq]]
        ELSE [found |-> FALSE, cache |-> NoCache]

\* getSubSchema(field) for field j of schema i: the result after the call and the
\* value returned (Undef where the function ends without a return statement)
getSubSchema(res, i, j) ==
    LET field == res.schemas[i].fields[j]
        hasLink == field.type \in DOMAIN res.linkCache
        e == IF hasLink THEN LinkCacheEntry(res, res.linkCache[field.type])
             ELSE [found |-> FALSE, cache |-> NoCache]
        text == "Sub-schema (" \o field.type \o ") not found."
        error == XlsxError(text, "", -1)
    IN  IF field.type = "#GeoJSON"
        THEN [res |-> res, ret |-> "#GeoJSON"]
        ELSE IF e.found /\ Truthy(e.cache.iri)
        THEN [res |-> res, ret |-> e.cache.iri]
        ELSE [res |-> [addError(res, error) EXCEPT
                        !.schemas[i].fields[j] =
                            [Attach(@, error) EXCEPT !.type = Null]],
              ret |-> Undef]

\* a resolution that leaves an unresolved field its link id
ResolveField_KeepLink(res, i, j) ==
    IF res.schemas[i].fields[j].isRef
    THEN LET g == getSubSchema(res, i, j)
         IN  [g.res EXCEPT !.schemas[i].fields[j].type =
                IF g.ret = Undef THEN res.schemas[i].fields[j].type ELSE g.ret]
    ELSE res

\* lines 447-449 for field j of schema i
ResolveField(res, i, j) ==
    IF res.schemas[i].fields[j].isRef
    THEN LET g == getSubSchema(res, i, j)
         IN  [g.res EXCEPT !.schemas[i].fields[j].type = g.ret]
    ELSE res

RECURSIVE ResolveFrom(_, _, _)
\* the loops of updateSchemas, from field j of schema i on
ResolveFrom(res, i, j) ==
    IF i > Len(res.schemas) THEN res
    ELSE IF j > Len(res.schemas[i].fields) THEN ResolveFrom(res, i + 1, 1)
    ELSE ResolveFrom(ResolveField(res, i, j), i, j + 1)

updateSchemas(res) == ResolveFrom(res, 1, 1)

\* toJson(): the tools are the values of the tool registry (as a set: the
\* order of insertion is left out), the schemas are given by iri and name
toJson(res) ==
    [schemas |-> [k \in 1..Len(res.schemas) |->
                    [iri |-> res.schemas[k].iri, name |-> res.schemas[k].name]],
     tools |-> {res.toolsCache[k] : k \in DOMAIN res.toolsCache},
     errors |-> res.errors]

----------------------------------------------------------------------------
(* Table (models/header-utils) and the dictionary of header labels *)

HeaderOrder ==
    <<"Required Field", "Field Type", "Parameter", "Visibility", "Question",
      "Allow Multiple Answers", "Answer">>

FieldHeaders == {HeaderOrder[k] : k \in 1..Len(HeaderOrder)}

RequiredHeaders == FieldHeaders \ {"Visibility"}

NewTable == [cols |-> {}, rows |-> {}]

\* table.getCol(title): the column of a field header, -1 when it is not set
getCol(t, title) ==
    IF title \in t.cols
    THEN CHOOSE k \in 1..Len(HeaderOrder) : HeaderOrder[k] = title
    ELSE -1

\* table.getRow(title): -1 when the schema header has no row
getRow(t, title) == IF title \in t.rows THEN 1 ELSE -1

\* table.getErrorHeader(): the title of the first required header that is not set
getErrorHeader(t) ==
    LET missing == {k \in 1..Len(HeaderOrder) :
                        /\ HeaderOrder[k] \in RequiredHeaders
                        /\ getCol(t, HeaderOrder[k]) = -1}
    IN  IF missing = {} THEN Null
        ELSE HeaderOrder[CHOOSE k \in missing : \A m \in missing : k <= m]

\* worksheet.outColumnRange(col)
outColumnRange(col) == col < 0

----------------------------------------------------------------------------
(* Schema, SchemaField *)

POLICY == "POLICY"
TOOL == "TOOL"

\* new Schema()
NewSchema ==
    [name |-> Undef, category |-> Undef, messageId |-> Undef, iri |-> Undef,
     fields |-> <<>>, conditions |-> <<>>, errors |-> <<>>]

\* the object literal readField starts from; enum is the list of values (<<>>
\* while the field has none), font the font descriptor by its name, examples
\* the list of example values (<<>> while the field has none)
NewField ==
    [name |-> "", type |-> Null, isRef |-> FALSE, hidden |-> FALSE,
     isArray |-> FALSE, format |-> Null, pattern |-> Null, unit |-> Null,
     enum |-> <<>>, font |-> Undef, examples |-> <<>>, errors |-> <<>>]

\* worksheet.getPath(col, row) of the answer cell of a row
Path(r) == "G" \o ToString(r)

\* SchemaHelper.updateIRI(schema) for the schema of worksheet i
Iri(i) == "#iri_" \o ToString(i)

\* FieldTypes.findByName(type): the registry of field types
FieldType(type, format, pattern, isRef) ==
    [type |-> type, format |-> format, pattern |-> pattern, unit |-> Undef,
     isRef |-> isRef, hidden |-> FALSE]

FieldTypes ==
    [String |-> FieldType("string", Undef, Undef, FALSE),
     GeoJSON |-> FieldType("#GeoJSON", Undef, Undef, TRUE),
     Date |-> FieldType("string", "date", Undef, FALSE),
     Image |-> FieldType("string", Undef, "^ipfs:\\/\\/.+", FALSE),
     Prefix |-> FieldType("number", Undef, Undef, FALSE),
     Postfix |-> FieldType("number", Undef, Undef, FALSE),
     Enum |-> FieldType("string", Undef, Undef, FALSE),
     HelpText |-> FieldType("null", Undef, Undef, FALSE),
     AutoCalculate |-> FieldType("string", Undef, Undef, FALSE),
     Hidden |-> [FieldType("boolean", Undef, Undef, FALSE) EXCEPT !.hidden = TRUE]]

\* Dictionary.AUTO_CALCULATE
AUTO_CALCULATE == "Auto-Calculate"

\* FieldTypes.findByName(label): the key of the registry entry of a type label
TypeKey(label) ==
    IF label = "Help Text" THEN "HelpText"
    ELSE IF label = AUTO_CALCULATE THEN "AutoCalculate"
    ELSE label

\* whether the registry has an entry for a type label
Recognized(label) == TypeKey(label) \in DOMAIN FieldTypes

----------------------------------------------------------------------------
(* Value converters and what the cells of a field row carry *)

\* the number format of the answer cells, its data-validation list and the
\* styling of the question cells
AnswerFormat == "0.00 \"$\""
AnswerList == <<"L1", "L2">>
QuestionStyle == "style"

\* xlsxToUnit(format): the unit quoted in a number format
xlsxToUnit(format) == IF format = AnswerFormat THEN "$" ELSE Undef

\* xlsxToFont(v): the font of a cell's styling or of a font-encoding string
xlsxToFont(v) ==
    IF v = QuestionStyle THEN "regular #000000 11"
    ELSE IF v = "bold" THEN "bold"
    ELSE "regular"

\* xlsxToArray(value, isArray): the items of the value of an array field, the
\* value alone otherwise
xlsxToArray(value, isArray) ==
    IF isArray /\ value = "a,b" THEN <<"a", "b">> ELSE <<value>>

\* param.split(/\r?\n/)
Split(param) == IF param = "Low\nHigh" THEN <<"Low", "High">> ELSE <<param>>

----------------------------------------------------------------------------
(* Visibility formulas and parseCondition *)

\* A formula is named by its shape, its field reference and its literal:
\*   EXACT_SL      EXACT(sym, lit)         EXACT_LS      EXACT(lit, sym)
\*   NOT_EXACT_SL  NOT(EXACT(sym, lit))    NOT_EXACT_LS  NOT(EXACT(lit, sym))
\*   NOT_NOT_EXACT NOT(NOT(EXACT(sym, lit)))
\*   EXACT_SS      EXACT(sym, sym)         AND           AND(sym, lit)
\*   SYMBOL        sym                     SYNTAX        text mathjs rejects
\*   TRUE, FALSE   the keywords            EMPTY         the empty string
\*   true, false   the booleans xlsxToBoolean gives for a plain value
Formula(shape, sym, lit) == [shape |-> shape, sym |-> sym, lit |-> lit]

NoFormula == Formula("EMPTY", "", "")

SymbolNode(name) == [type |-> "SymbolNode", name |-> name]
ConstantNode(value) == [type |-> "ConstantNode", value |-> value]
FunctionNode(name, args) ==
    [type |-> "FunctionNode", fn |-> [name |-> name], args |-> args]

\* mathjs.parse(formulae) for the formulas it accepts
Tree(f) ==
    LET sl == FunctionNode("EXACT", <<SymbolNode(f.sym), ConstantNode(f.lit)>>)
        ls == FunctionNode("EXACT", <<ConstantNode(f.lit), SymbolNode(f.sym)>>)
    IN  CASE f.shape = "EXACT_SL" -> sl
          [] f.shape = "EXACT_LS" -> ls
          [] f.shape = "NOT_EXACT_SL" -> FunctionNode("NOT", <<sl>>)
          [] f.shape = "NOT_EXACT_LS" -> FunctionNode("NOT", <<ls>>)
          [] f.shape = "NOT_NOT_EXACT" ->
                FunctionNode("NOT", <<FunctionNode("NOT", <<sl>>)>>)
          [] f.shape = "EXACT_SS" ->
                FunctionNode("EXACT", <<SymbolNode(f.sym), SymbolNode(f.sym)>>)
          [] f.shape = "AND" ->
                FunctionNode("AND", <<SymbolNode(f.sym), ConstantNode(f.lit)>>)
          [] OTHER -> SymbolNode(f.sym)

NoNode == [ok |-> FALSE, field |-> "", value |-> "", invert |-> FALSE]

RECURSIVE parsFn(_, _)
parsFn(tree, invert) ==
    IF tree.type # "FunctionNode" THEN NoNode
    ELSE IF /\ tree.fn.name = "EXACT" /\ Len(tree.args) = 2
            /\ tree.args[1].type = "SymbolNode"
            /\ tree.args[2].type = "ConstantNode"
    THEN [ok |-> TRUE, field |-> tree.args[1].name,
          value |-> tree.args[2].value, invert |-> invert]
    ELSE IF /\ tree.fn.name = "EXACT" /\ Len(tree.args) = 2
            /\ tree.args[1].type = "ConstantNode"
            /\ tree.args[2].type = "SymbolNode"
    THEN [ok |-> TRUE, field |-> tree.args[1].value,
          value |-> tree.args[2].name, invert |-> invert]
    ELSE IF tree.fn.name = "NOT" /\ Len(tree.args) = 1
    THEN parsFn(tree.args[1], TRUE)
    ELSE NoNode

\* What parseCondition gives: type "null" for the null it returns, "const",
\* "formulae", or "error" for the exception it raises
Result(type, cvalue, field, value, invert) ==
    [type |-> type, cvalue |-> cvalue, field |-> field, value |-> value,
     invert |-> invert]

NoResult == Result("null", FALSE, "", "", FALSE)

parseCondition(formulae) ==
    IF formulae.shape = "EMPTY" THEN NoResult
    ELSE IF formulae.shape \in {"TRUE", "true"}
    THEN Result("const", TRUE, "", "", FALSE)
    ELSE IF formulae.shape \in {"FALSE", "false"}
    THEN Result("const", FALSE, "", "", FALSE)
    ELSE IF formulae.shape = "SYNTAX" THEN Result("error", FALSE, "", "", FALSE)
    ELSE LET node == parsFn(Tree(formulae), FALSE)
         IN  IF node.ok
             THEN Result("formulae", FALSE, node.field, node.value, node.invert)
             ELSE Result("error", FALSE, "", "", FALSE)

----------------------------------------------------------------------------
(* XlsxSchemaConditions (models/schema-condition) *)

\* new XlsxSchemaConditions(target, value); target is Undef when the driving
\* field is not in the field cache
NewCondition(target, value) == [field |-> target, value |-> value, fields |-> <<>>]

\* condition.equal(fieldName, value)
equal(c, fieldName, value) == c.field = fieldName /\ c.value = value

\* condition.addField(field, invert)
addField(c, name, invert) ==
    [c EXCEPT !.fields = Append(@, [name |-> name, invert |-> invert])]

----------------------------------------------------------------------------
(* XlsxToJson.readField, readFieldParams, readCondition *)

\* A field row as readField reads it: the type label, the worksheet its type
\* cell links to (Undef without a hyperlink), and the cell access that raises
\*   thr: "none", "path" (line 649), "params" (line 729), "answer" (line 699)
FieldCell(type, link, thr) ==
    [type |-> type, link |-> link, thr |-> thr, param |-> "", answer |-> "",
     isArray |-> FALSE]

\* a field row with a parameter cell
ParamCell(type, param) == [FieldCell(type, Undef, "none") EXCEPT !.param = param]

\* a field row with an answer cell and an "Allow Multiple Answers" cell
AnswerCell(type, link, answer, isArray) ==
    [FieldCell(type, link, "none") EXCEPT !.answer = answer, !.isArray = isArray]

\* lines 698-705 recording the examples of every non-reference field
readExamples_Formula(field, type, answer) ==
    IF ~field.isRef /\ Truthy(answer)
    THEN [field EXCEPT !.examples = xlsxToArray(answer, field.isArray)]
    ELSE field

\* lines 698-705: the examples of a field, from the answer cell
readExamples(field, type, answer) ==
    IF field.isRef THEN field
    ELSE IF type = AUTO_CALCULATE THEN field
    ELSE IF Truthy(answer)
    THEN [field EXCEPT !.examples = xlsxToArray(answer, field.isArray)]
    ELSE field

\* readFieldParams with a parameter that is used only where the cell gives
\* nothing
readFieldParams_Merging(res, field, worksheet, r, cell) ==
    LET unit == xlsxToUnit(AnswerFormat)
    IN  [res |-> res,
         field |-> IF cell.type \in {"Prefix", "Postfix"}
                   THEN [field EXCEPT !.unit = IF Truthy(unit) THEN unit
                                               ELSE cell.param]
                   ELSE field]

\* readFieldParams (lines 720-786)
readFieldParams(res, field, worksheet, r, cell) ==
    LET error == XlsxError("Failed to parse params.", worksheet, r)
        name == cell.type
        param == cell.param
        \* lines 731-757: from the format, the list and the styling of the cells
        derived ==
            IF name \in {"Prefix", "Postfix"}
            THEN [field EXCEPT !.unit = xlsxToUnit(AnswerFormat)]
            ELSE IF name = "Enum" THEN [field EXCEPT !.enum = AnswerList]
            ELSE IF name = "Help Text"
            THEN [field EXCEPT !.font = xlsxToFont(QuestionStyle)]
            ELSE field
        \* lines 759-776: from the parameter
        given ==
            IF ~Truthy(param) THEN derived
            ELSE IF name \in {"Prefix", "Postfix"} THEN [derived EXCEPT !.unit = param]
            ELSE IF name = "Enum" THEN [derived EXCEPT !.enum = Split(param)]
            ELSE IF name = "Help Text"
            THEN [derived EXCEPT !.font = xlsxToFont(param)]
            ELSE derived
    IN  IF cell.thr = "params"
        THEN [res |-> addError(res, error), field |-> Attach(field, error)]
        ELSE [res |-> res, field |-> given]

\* readField skipping a row whose type cell is empty
readField_SkipEmpty(res, worksheet, r, cell) ==
    LET named == [NewField EXCEPT !.name = Path(r)]
        ft == FieldTypes[IF cell.type \in DOMAIN FieldTypes THEN cell.type
                         ELSE "String"]
    IN  IF cell.type = ""
        THEN [res |-> res, field |-> NewField, returned |-> FALSE, threw |-> 0]
        ELSE IF cell.type \in DOMAIN FieldTypes
        THEN [res |-> res,
              field |-> [named EXCEPT !.type = ft.type, !.hidden = ft.hidden,
                                      !.isRef = ft.isRef],
              returned |-> TRUE, threw |-> 0]
        ELSE [res |-> addLink(res, cell.type, cell.link),
              field |-> [named EXCEPT !.type = addLinkId(res), !.isRef = TRUE],
              returned |-> TRUE, threw |-> 0]

readField(res, worksheet, r, cell) ==
    LET failed == XlsxError("Failed to parse field.", worksheet, r)
        unknown == XlsxError("Unknown field type.", worksheet, r)
        named == [NewField EXCEPT !.name = Path(r), !.isArray = cell.isArray]
        typed ==
            IF Recognized(cell.type)
            THEN readFieldParams(res,
                    [named EXCEPT !.type = FieldTypes[TypeKey(cell.type)].type,
                                  !.format = FieldTypes[TypeKey(cell.type)].format,
                                  !.pattern = FieldTypes[TypeKey(cell.type)].pattern,
                                  !.unit = FieldTypes[TypeKey(cell.type)].unit,
                                  !.hidden = FieldTypes[TypeKey(cell.type)].hidden,
                                  !.isRef = FieldTypes[TypeKey(cell.type)].isRef],
                    worksheet, r, cell)
            ELSE IF cell.type # ""
            THEN [res |-> addLink(res, cell.type, cell.link),
                  field |-> [named EXCEPT !.type = addLinkId(res), !.isRef = TRUE]]
            ELSE [res |-> addError(res, unknown), field |-> Attach(named, unknown)]
    IN  IF cell.thr = "path"
        THEN [res |-> addError(res, failed), field |-> NewField,
              returned |-> FALSE, threw |-> 1]
        ELSE IF ~typed.field.isRef /\ cell.thr = "answer"
        THEN [res |-> addError(typed.res, failed), field |-> typed.field,
              returned |-> FALSE, threw |-> 1]
        ELSE [res |-> typed.res,
              field |-> readExamples(typed.field, cell.type, cell.answer),
              returned |-> TRUE,
              threw |-> IF cell.thr = "params" /\ Recognized(cell.type)
                        THEN 1 ELSE 0]

\* a constant result that sets the hidden flag to its negation
hide_Assign(hidden, value) == ~value

\* line 826: field.hidden || !result.value
hide(hidden, value) == hidden \/ ~value

\* A visibility cell as readCondition reads it: kind "formulae" (isFormulae),
\* "value" (isValue, f the boolean xlsxToBoolean gives) or "empty", and
\*   thr: "none", "path" (line 796), "cell" (line 804),
\*        "catch" (line 804, then line 846 in the catch clause)
CondCell(kind, f, thr) == [kind |-> kind, f |-> f, thr |-> thr]

CondOut(res, flds, conds, ret, threw, escapes, parsed, result) ==
    [res |-> res, fields |-> flds, conditions |-> conds, ret |-> ret,
     threw |-> threw, escapes |-> escapes, parsed |-> parsed, result |-> result]

\* readCondition; ret is the condition returned (its place in `conditions`), 0
\* for undefined; escapes: an exception leaves readCondition; parsed: the cell
\* was read and, unless empty, given to parseCondition
readCondition(res, t, flds, fcache, conds, ccache, worksheet, r, cell) ==
    LET name == Path(r)
        has == name \in fcache
        idx == IF has THEN CHOOSE k \in 1..Len(flds) : flds[k].name = name ELSE 0
        error == XlsxError("Failed to parse condition.", worksheet, r)
        \* xlsxResult.addError(error, field)
        res1 == addError(res, error)
        flds1 == IF has THEN [flds EXCEPT ![idx] = Attach(@, error)] ELSE flds
        result == IF cell.kind = "empty" THEN NoResult ELSE parseCondition(cell.f)
        found == {k \in 1..Len(ccache) :
                    equal(conds[ccache[k]], result.field, result.value)}
        target == IF result.field \in fcache THEN result.field ELSE Undef
        ci == IF found # {}
              THEN ccache[CHOOSE k \in found : \A m \in found : k <= m]
              ELSE Len(conds) + 1
        conds1 == IF found # {} THEN conds
                  ELSE Append(conds, NewCondition(target, result.value))
        conds2 == [conds1 EXCEPT
                    ![ci] = addField(@, IF has THEN name ELSE Undef, result.invert)]
    IN  IF cell.thr = "path"
        THEN CondOut(res, flds, conds, 0, 1, TRUE, FALSE, NoResult)
        ELSE IF outColumnRange(getCol(t, "Visibility"))
        THEN CondOut(res, flds, conds, 0, 0, FALSE, FALSE, NoResult)
        ELSE IF cell.thr = "cell"
        THEN CondOut(res1, flds1, conds, 0, 1, FALSE, FALSE, NoResult)
        ELSE IF cell.thr = "catch"
        THEN CondOut(res, flds, conds, 0, 2, TRUE, FALSE, NoResult)
        ELSE IF result.type = "error"
        THEN CondOut(res1, flds1, conds, 0, 1, FALSE, TRUE, result)
        ELSE IF result.type = "null"
        THEN CondOut(res, flds, conds, 0, 0, FALSE, TRUE, result)
        ELSE IF result.type = "const"
        THEN IF has
             THEN CondOut(res,
                    [flds EXCEPT ![idx].hidden = hide(@, result.cvalue)],
                    conds, 0, 0, FALSE, TRUE, result)
             ELSE CondOut(res1, flds1, conds, 0, 1, FALSE, TRUE, result)
        ELSE CondOut(res, flds, conds2, ci, 0, FALSE, TRUE, result)

\* a catch clause of parseSheet that records nothing and raises again
sheetCatch_Rethrow(res, s, worksheet) ==
    [res |-> res, schema |-> s, rethrown |-> TRUE]

\* a catch clause of parseSheet that records the error in the result only
sheetCatch_Unattached(res, s, worksheet) ==
    LET error == XlsxError("Failed to parse sheet.", worksheet, -1)
    IN  [res |-> addError(res, error), schema |-> s, rethrown |-> FALSE]

\* the catch clause of parseSheet (lines 615-623)
sheetCatch(res, s, worksheet) ==
    LET error == XlsxError("Failed to parse sheet.", worksheet, -1)
    IN  [res |-> addError(res, error), schema |-> Attach(s, error),
         rethrown |-> FALSE]

\* a catch clause of parse that records the error and clears nothing
parseCatch_NoClear(res) ==
    [res |-> addError(res, XlsxError("Failed to parse file.", "", -1)),
     rethrown |-> FALSE]

\* the catch clause of parse (lines 500-508)
parseCatch(res) ==
    [res |-> clear(addError(res, XlsxError("Failed to parse file.", "", -1))),
     rethrown |-> FALSE]

----------------------------------------------------------------------------
(* The inputs: worksheets, rows and cells, by class of workbook *)

\* The header region of a worksheet: the field headers of its header row and
\* the cells beside its "Schema name", "Tool" and "Tool Id" rows (Undef: no row)
Worksheet(cols, name, tool, toolId) ==
    [cols |-> cols, name |-> name, tool |-> tool, toolId |-> toolId]

NoSheet == Worksheet({}, Undef, Undef, Undef)

\* "refs": several worksheets, tools and cross references, no visibility column
\* "conds": visibility formulas of every shape
\* "throws": cell accesses that raise
\* "params": field types with parameters
\* "consts": constant visibility results on visible and hidden fields
\* "answers": answer cells, empty and not, of fields of every kind
\* "failing": worksheets that fail, and references to them
Classes == {"refs", "conds", "throws", "params", "consts", "answers", "failing"}

Worksheets(c) ==
    IF c = "refs"
    THEN {Worksheet(RequiredHeaders, n, Undef, Undef) : n \in {Undef, "A"}}
         \cup {Worksheet(RequiredHeaders, "A", "T", "0.0.555"),
               Worksheet(RequiredHeaders, Undef, "T", Undef),
               Worksheet(RequiredHeaders \ {"Answer"}, "A", Undef, Undef),
               Worksheet(RequiredHeaders \ {"Field Type"}, Undef, "T", "0.0.555")}
    ELSE IF c \in {"params", "answers"}
    THEN {Worksheet(RequiredHeaders, Undef, Undef, Undef)}
    ELSE IF c = "failing"
    THEN {Worksheet(RequiredHeaders, Undef, Undef, Undef),
          Worksheet(RequiredHeaders, "A", Undef, Undef),
          Worksheet(RequiredHeaders, "A", "T", "0.0.555")}
    ELSE IF c = "conds"
    THEN {Worksheet(FieldHeaders, Undef, Undef, Undef)}
    ELSE {Worksheet(FieldHeaders, Undef, Undef, Undef)}

FieldCells(c) ==
    IF c = "refs"
    THEN {FieldCell(t, Undef, "none") : t \in {"String", "GeoJSON", ""}}
         \cup {FieldCell("A", l, "none") : l \in {Undef, "W1", "W2", "W9"}}
    ELSE IF c = "conds"
    THEN {FieldCell("String", Undef, "none")}
    ELSE IF c = "failing"
    THEN {FieldCell("A", l, "none") : l \in {Undef, "W1"}}
         \cup {FieldCell("W1", Undef, "none")}
    ELSE IF c = "answers"
    THEN {AnswerCell(t, Undef, a, FALSE) :
                t \in {"String", AUTO_CALCULATE, "GeoJSON", "A", ""},
                a \in {"", "a,b"}}
         \cup {AnswerCell("String", Undef, "a,b", TRUE)}
    ELSE IF c = "consts"
    THEN {FieldCell(t, Undef, "none") : t \in {"String", "Hidden"}}
    ELSE IF c = "params"
    THEN {ParamCell(t, p) : t \in {"Prefix", "Enum", "Help Text", "Date"},
                            p \in {"", "kg"}}
         \cup {ParamCell("Postfix", "kg"), ParamCell("Enum", "Low\nHigh"),
               ParamCell("Help Text", "bold"), ParamCell("Image", "")}
    ELSE {FieldCell("String", Undef, thr) : thr \in {"none", "path", "params", "answer"}}
         \cup {FieldCell("", Undef, "answer")}

Formulas ==
    {Formula(sh, "G1", l) :
        sh \in {"EXACT_SL", "EXACT_LS", "NOT_EXACT_SL"}, l \in {"X", "Y"}}
    \cup {Formula(sh, "G2", "X") : sh \in {"EXACT_SL", "NOT_EXACT_LS", "NOT_NOT_EXACT"}}
    \cup {Formula(sh, "G1", "X") : sh \in {"EXACT_SS", "AND", "SYMBOL", "SYNTAX"}}
    \cup {Formula(sh, "", "") : sh \in {"TRUE", "FALSE", "EMPTY"}}

CondCells(c) ==
    IF c \in {"refs", "failing"}
    THEN {CondCell("empty", NoFormula, "none")}
    ELSE IF c \in {"params", "answers"}
    THEN {CondCell("value", Formula("true", "", ""), "none")}
    ELSE IF c = "consts"
    THEN {CondCell("value", Formula(b, "", ""), "none") : b \in {"true", "false"}}
         \cup {CondCell("formulae", Formula("FALSE", "", ""), "none"),
               CondCell("formulae", Formula("EXACT_SL", "G1", "X"), "none")}
    ELSE IF c = "conds"
    THEN {CondCell("formulae", f, "none") : f \in Formulas}
         \cup {CondCell("value", Formula(b, "", ""), "none") : b \in {"true", "false"}}
         \cup {CondCell("empty", NoFormula, "none")}
    ELSE {CondCell("formulae", Formula("EXACT_SL", "G1", "X"), thr) :
                thr \in {"none", "path", "cell", "catch"}}
         \cup {CondCell("value", Formula("false", "", ""), "none")}

\* whether workbook.read raises
LoadThrows(c) == IF c = "throws" THEN {FALSE, TRUE} ELSE {FALSE}

\* whether the header scan (lines 519-546), the metadata (561-577) or
\* schema.update / updateIRI (612-613) raise
SheetThrows(c) == IF c \in {"throws", "failing"} THEN {FALSE, TRUE} ELSE {FALSE}

\* the calls the host makes on the result: the workbooks with tools and cross
\* references are the ones whose result it resolves
HostCalls(c) == IF c \in {"refs", "failing"} THEN MaxOps ELSE 0

\* the tools and tool schemas the host loads
PolicyTools == {[uuid |-> "uuid-T", name |-> "T", messageId |-> "0.0.555"]}

ToolSchemas == {<<>>, <<[name |-> "A", iri |-> "#tool_A"]>>}

\* `last`: the step taken (op); for readField the row, its type label, its
\* parameter, the cell access that raised and whether a field was returned; for readCondition the row, the kind of cell and
\* formula given to parseCondition ("unread" when it was not reached), what
\* parseCondition gave and whether a condition was returned
NoLast ==
    [op |-> "none", row |-> 0, label |-> "", returned |-> FALSE,
     kind |-> "unread", thr |-> "none", param |-> "", link |-> Undef,
     answer |-> "",
     f |-> NoFormula,
     result |-> NoResult]

\* the parse invocations of the interleaving
Procs == {1, 2}

\* no parse invocation started: the XlsxResult objects allocated (heap), the
\* object each invocation holds (ref, 0 before its constructor call), where
\* each invocation is, the worksheets it has parsed, whether its workbook.read
\* raised, and the invocation that took the last step
NoPar ==
    [heap |-> <<>>, ref |-> [p \in Procs |-> 0], at |-> [p \in Procs |-> "init"],
     inputs |-> [p \in Procs |-> <<>>], failed |-> [p \in Procs |-> FALSE],
     actor |-> 0]

\* no parseSheet call on a worksheet given cell by cell: where the call is
\* (at), the row that holds the field headers of its worksheet (h), range.e of
\* the worksheet (e), parseSheet's `row` and `col` as the absolute indices of
\* the source, table.end.r (end), its table, fields and schema, the XlsxResult,
\* and the cells read so far with the loop that read each (visited)
NoGrid ==
    [at |-> "init", h |-> 0, e |-> [c |-> 0, r |-> 0], row |-> 0, col |-> 0,
     end |-> 0, table |-> NewTable, fields |-> <<>>, schema |-> NewSchema,
     res |-> NewResult, visited |-> {}]

----------------------------------------------------------------------------
(* XlsxToJson.parse and parseSheet, step by step *)

Init ==
    /\ wbClass \in Classes
    /\ pc = "init"
    /\ sheet = 0
    /\ used = 0
    /\ nRows = 0
    /\ ws = NoSheet
    /\ row = 0
    /\ table = NewTable
    /\ schema = NewSchema
    /\ fields = <<>>
    /\ fieldCache = {}
    /\ conditions = <<>>
    /\ conditionCache = <<>>
    /\ xlsxResult = NewResult
    /\ last = NoLast
    /\ thrown = 0
    /\ escaped = "none"
    /\ ops = 0
    /\ par = NoPar
    /\ grid = NoGrid

\* An exception raised inside the try block of parseSheet n times over: the
\* catch clause of parseSheet, and that of parse for what parseSheet propagates
Raise(res, s, worksheet, n) ==
    LET c == sheetCatch(res, s, worksheet)
        p == parseCatch(c.res)
    IN  /\ thrown' = thrown + n
        /\ schema' = c.schema
        /\ IF c.rethrown
           THEN /\ xlsxResult' = p.res
                /\ pc' = "returned"
                /\ escaped' = IF p.rethrown THEN "parse" ELSE "parseSheet"
           ELSE /\ xlsxResult' = c.res
                /\ pc' = "register"
                /\ escaped' = escaped

\* lines 484-488: new XlsxResult(), workbook.read, getWorksheets
Load ==
    /\ pc = "init"
    /\ \E thr \in LoadThrows(wbClass) :
        IF thr
        THEN LET p == parseCatch(xlsxResult)
             IN  /\ xlsxResult' = p.res
                 /\ pc' = "returned"
                 /\ thrown' = thrown + 1
                 /\ escaped' = IF p.rethrown THEN "parse" ELSE escaped
        ELSE /\ pc' = "next"
             /\ UNCHANGED <<xlsxResult, thrown, escaped>>
    /\ last' = [NoLast EXCEPT !.op = "load"]
    /\ UNCHANGED <<grid, par, wbClass, sheet, used, nRows, ws, row, table, schema, fields,
                   fieldCache, conditions, conditionCache, ops>>

\* lines 528-546: the rows and columns the two header loops set in the table
Scan(w) ==
    [cols |-> w.cols,
     rows |-> {h \in {"Schema name", "Tool", "Tool Id"} :
                    \/ h = "Schema name" /\ w.name # Undef
                    \/ h = "Tool" /\ w.tool # Undef
                    \/ h = "Tool Id" /\ w.toolId # Undef}]

\* lines 515-546 for the next worksheet of the workbook
ScanHeaders ==
    /\ pc = "next"
    /\ used < MaxSize
    /\ \E w \in Worksheets(wbClass), thr \in SheetThrows(wbClass) :
        LET s == [NewSchema EXCEPT !.name = WsName(sheet + 1), !.category = POLICY]
        IN  /\ ws' = w
            /\ IF thr
               THEN /\ Raise(xlsxResult, s, WsName(sheet + 1), 1)
                    /\ table' = NewTable
               ELSE /\ schema' = s
                    /\ table' = Scan(w)
                    /\ pc' = "validate"
                    /\ UNCHANGED <<xlsxResult, thrown, escaped>>
    /\ sheet' = sheet + 1
    /\ used' = used + 1
    /\ row' = 0
    /\ nRows' = 0
    /\ fields' = <<>>
    /\ fieldCache' = {}
    /\ conditions' = <<>>
    /\ conditionCache' = <<>>
    /\ last' = [NoLast EXCEPT !.op = "scan"]
    /\ UNCHANGED <<grid, par, wbClass, ops>>

\* header validation that records the error and goes on to the metadata
ValidateHeaders_NoReturn ==
    /\ pc = "validate"
    /\ LET errorHeader == getErrorHeader(table)
           error == XlsxError("Invalid headers. Header " \o errorHeader \o " not set.",
                              WsName(sheet), -1)
       IN  IF errorHeader # Null
           THEN /\ xlsxResult' = addError(xlsxResult, error)
                /\ schema' = Attach(schema, error)
           ELSE UNCHANGED <<xlsxResult, schema>>
    /\ pc' = "meta"
    /\ last' = [NoLast EXCEPT !.op = "validate"]
    /\ UNCHANGED <<grid, par, wbClass, sheet, used, nRows, ws, row, table, fields, fieldCache,
                   conditions, conditionCache, thrown, escaped, ops>>

\* lines 548-559
ValidateHeaders ==
    /\ pc = "validate"
    /\ LET errorHeader == getErrorHeader(table)
           error == XlsxError("Invalid headers. Header " \o errorHeader \o " not set.",
                              WsName(sheet), -1)
       IN  IF errorHeader # Null
           THEN /\ xlsxResult' = addError(xlsxResult, error)
                /\ schema' = Attach(schema, error)
                /\ pc' = "register"
           ELSE /\ pc' = "meta"
                /\ UNCHANGED <<xlsxResult, schema>>
    /\ last' = [NoLast EXCEPT !.op = "validate"]
    /\ UNCHANGED <<grid, par, wbClass, sheet, used, nRows, ws, row, table, fields, fieldCache,
                   conditions, conditionCache, thrown, escaped, ops>>

\* lines 561-582: the schema after the metadata is read, and whether parseSheet
\* returns it as a tool
readMetadata(s, t, w) ==
    LET named == IF getRow(t, "Schema name") # -1 THEN [s EXCEPT !.name = w.name]
                 ELSE s
        toolName == IF getRow(t, "Tool") # -1 THEN w.tool ELSE Undef
        messageId == IF getRow(t, "Tool Id") # -1 THEN w.toolId ELSE Undef
    IN  IF Truthy(toolName) \/ Truthy(messageId)
        THEN [schema |-> [named EXCEPT !.category = TOOL, !.messageId = messageId],
              tool |-> TRUE]
        ELSE [schema |-> named, tool |-> FALSE]

ReadMetadata ==
    /\ pc = "meta"
    /\ \E thr \in SheetThrows(wbClass) :
        IF thr
        THEN /\ Raise(xlsxResult, schema, WsName(sheet), 1)
             /\ row' = row
        ELSE LET m == readMetadata(schema, table, ws)
             IN  /\ schema' = m.schema
                 /\ pc' = IF m.tool THEN "register" ELSE "fields"
                 /\ row' = 1
                 /\ UNCHANGED <<xlsxResult, thrown, escaped>>
    /\ last' = [NoLast EXCEPT !.op = "meta"]
    /\ UNCHANGED <<grid, par, wbClass, sheet, used, nRows, ws, table, fields, fieldCache,
                   conditions, conditionCache, ops>>

\* a field loop that also runs between the rows of the condition loop
fieldLoop_Interleaved(p) == p \in {"fields", "conds"}

\* line 587: the field loop runs after the metadata, before the condition loop
fieldLoop(p) == p = "fields"

\* lines 587-593, one row
ReadField ==
    /\ fieldLoop(pc)
    /\ used < MaxSize
    /\ \E cell \in FieldCells(wbClass) :
        LET o == readField(xlsxResult, WsName(sheet), row, cell)
        IN  /\ xlsxResult' = o.res
            /\ fields' = IF o.returned THEN Append(fields, o.field) ELSE fields
            /\ fieldCache' = IF o.returned THEN fieldCache \cup {o.field.name}
                             ELSE fieldCache
            /\ thrown' = thrown + o.threw
            /\ last' = [NoLast EXCEPT !.op = "readField", !.row = row,
                            !.label = cell.type, !.thr = cell.thr,
                            !.param = cell.param, !.link = cell.link,
                            !.answer = cell.answer,
                            !.returned = o.returned]
    /\ row' = row + 1
    /\ used' = used + 1
    /\ UNCHANGED <<grid, par, wbClass, pc, sheet, nRows, ws, table, schema, conditions,
                   conditionCache, escaped, ops>>

\* line 587 at row = range.e.r, line 595
EndFields ==
    /\ pc = "fields"
    /\ pc' = "conds"
    /\ nRows' = row - 1
    /\ row' = 1
    /\ last' = [NoLast EXCEPT !.op = "endFields"]
    /\ UNCHANGED <<grid, par, wbClass, sheet, used, ws, table, schema, fields, fieldCache,
                   conditions, conditionCache, xlsxResult, thrown, escaped, ops>>

\* lines 606-608
pushCondition(ccache, ret) == IF ret # 0 THEN Append(ccache, ret) ELSE ccache

\* lines 597-609, one row
ReadCondition ==
    /\ pc = "conds"
    /\ row <= nRows
    /\ \E cell \in CondCells(wbClass) :
        LET o == readCondition(xlsxResult, table, fields, fieldCache, conditions,
                               conditionCache, WsName(sheet), row, cell)
        IN  /\ IF o.escapes
               THEN Raise(o.res, schema, WsName(sheet), o.threw)
               ELSE /\ xlsxResult' = o.res
                    /\ thrown' = thrown + o.threw
                    /\ UNCHANGED <<pc, schema, escaped>>
            /\ fields' = o.fields
            /\ conditions' = o.conditions
            /\ conditionCache' = pushCondition(conditionCache, o.ret)
            /\ last' = [NoLast EXCEPT !.op = "readCondition", !.row = row,
                            !.returned = (o.ret # 0),
                            !.kind = IF o.parsed THEN cell.kind ELSE "unread",
                            !.f = IF o.parsed THEN cell.f ELSE NoFormula,
                            !.result = o.result]
    /\ row' = row + 1
    /\ UNCHANGED <<grid, par, wbClass, sheet, used, nRows, ws, table, fieldCache, ops>>

\* lines 611-614
Finalize ==
    /\ pc = "conds"
    /\ row > nRows
    /\ \E thr \in SheetThrows(wbClass) :
        IF thr
        THEN Raise(xlsxResult, schema, WsName(sheet), 1)
        ELSE /\ schema' = [schema EXCEPT
                    !.fields = fields,
                    !.conditions = [k \in 1..Len(conditionCache) |->
                                        conditions[conditionCache[k]]],
                    !.iri = Iri(sheet)]
             /\ pc' = "register"
             /\ UNCHANGED <<xlsxResult, thrown, escaped>>
    /\ last' = [NoLast EXCEPT !.op = "finalize"]
    /\ UNCHANGED <<grid, par, wbClass, sheet, used, nRows, ws, row, table, fields, fieldCache,
                   conditions, conditionCache, ops>>

\* a driver that leaves out the schemas that carry an error
register_SkipFailed(res, worksheet, s) ==
    IF s.errors # <<>> THEN res
    ELSE IF s.category = TOOL THEN addTool(res, worksheet, s.name, s.messageId)
    ELSE addSchema(res, worksheet, s.name, s)

\* a driver that runs the resolution pass each time it registers an output
register_Resolving(res, worksheet, s) ==
    updateSchemas(IF s.category = TOOL
                  THEN addTool(res, worksheet, s.name, s.messageId)
                  ELSE addSchema(res, worksheet, s.name, s))

\* a driver that registers every worksheet's output as a schema
register_AlwaysSchema(res, worksheet, s) == addSchema(res, worksheet, s.name, s)

\* lines 491-497
register(res, worksheet, s) ==
    IF s.category = TOOL
    THEN addTool(res, worksheet, s.name, s.messageId)
    ELSE addSchema(res, worksheet, s.name, s)

Register ==
    /\ pc = "register"
    /\ xlsxResult' = register(xlsxResult, WsName(sheet), schema)
    /\ pc' = "next"
    /\ last' = [NoLast EXCEPT !.op = "register"]
    /\ UNCHANGED <<grid, par, wbClass, sheet, used, nRows, ws, row, table, schema, fields,
                   fieldCache, conditions, conditionCache, thrown, escaped, ops>>

\* a driver that runs the resolution pass before it returns
Return_Resolving ==
    /\ pc = "next"
    /\ pc' = "returned"
    /\ xlsxResult' = updateSchemas(xlsxResult)
    /\ last' = [NoLast EXCEPT !.op = "return"]
    /\ UNCHANGED <<grid, par, wbClass, sheet, used, nRows, ws, row, table, schema, fields,
                   fieldCache, conditions, conditionCache, thrown, escaped, ops>>

\* line 499
Return ==
    /\ pc = "next"
    /\ pc' = "returned"
    /\ last' = [NoLast EXCEPT !.op = "return"]
    /\ UNCHANGED <<grid, par, wbClass, sheet, used, nRows, ws, row, table, schema, fields,
                   fieldCache, conditions, conditionCache, xlsxResult, thrown,
                   escaped, ops>>

----------------------------------------------------------------------------
(* The calls of the host on the result parse returned *)

UpdateTool ==
    /\ pc = "returned"
    /\ ops < HostCalls(wbClass)
    /\ \E tool \in PolicyTools, schemas \in ToolSchemas :
        xlsxResult' = updateTool(xlsxResult, tool, schemas)
    /\ ops' = ops + 1
    /\ last' = [NoLast EXCEPT !.op = "updateTool"]
    /\ UNCHANGED <<grid, par, wbClass, pc, sheet, used, nRows, ws, row, table, schema, fields,
                   fieldCache, conditions, conditionCache, thrown, escaped>>

UpdateSchemas ==
    /\ pc = "returned"
    /\ ops < HostCalls(wbClass)
    /\ xlsxResult' = updateSchemas(xlsxResult)
    /\ ops' = ops + 1
    /\ last' = [NoLast EXCEPT !.op = "updateSchemas"]
    /\ UNCHANGED <<grid, par, wbClass, pc, sheet, used, nRows, ws, row, table, schema, fields,
                   fieldCache, conditions, conditionCache, thrown, escaped>>

Next ==
    \/ Load
    \/ ScanHeaders
    \/ ValidateHeaders
    \/ ReadMetadata
    \/ ReadField
    \/ EndFields
    \/ ReadCondition
    \/ Finalize
    \/ Register
    \/ Return
    \/ UpdateTool
    \/ UpdateSchemas

Spec == Init /\ [][Next]_vars

----------------------------------------------------------------------------
(* Two parse invocations interleaved at their await points *)

\* a parse that takes the XlsxResult of the first invocation when there is one
construct_Shared(heap) ==
    IF heap = <<>> THEN [heap |-> <<NewResult>>, ref |-> 1]
    ELSE [heap |-> heap, ref |-> 1]

\* line 484: new XlsxResult() allocates an object with its own lists and maps
construct(heap) == [heap |-> Append(heap, NewResult), ref |-> Len(heap) + 1]

\* the worksheets and field rows of the workbooks parsed side by side: no
\* visibility column, so that readCondition returns at once for every row
ParRows ==
    {<<FieldCell("A", Undef, "none")>>,
     <<FieldCell("A", "W1", "none"), FieldCell("", Undef, "none")>>}

ParSheets ==
    {[w |-> Worksheet(RequiredHeaders, Undef, Undef, Undef), cells |-> c] :
        c \in ParRows}
    \cup {[w |-> Worksheet(RequiredHeaders, "A", "T", "0.0.555"), cells |-> <<>>],
           [w |-> Worksheet(RequiredHeaders \ {"Answer"}, "A", Undef, Undef),
            cells |-> <<>>]}

RECURSIVE readRows(_, _, _, _, _)
\* lines 587-593: the field loop over the rows of a worksheet
readRows(res, flds, worksheet, r, cells) ==
    IF cells = <<>> THEN [res |-> res, fields |-> flds]
    ELSE LET o == readField(res, worksheet, r, Head(cells))
         IN  readRows(o.res, IF o.returned THEN Append(flds, o.field) ELSE flds,
                      worksheet, r + 1, Tail(cells))

\* lines 490-497: parseSheet for worksheet i, run to its return without an
\* exception, and the registration of its output
sheetTurn(res, i, w, cells) ==
    LET worksheet == WsName(i)
        s == [NewSchema EXCEPT !.name = worksheet, !.category = POLICY]
        t == Scan(w)
        errorHeader == getErrorHeader(t)
        error == XlsxError("Invalid headers. Header " \o errorHeader \o " not set.",
                           worksheet, -1)
        m == readMetadata(s, t, w)
        rows == readRows(res, <<>>, worksheet, 1, cells)
    IN  IF errorHeader # Null
        THEN register(addError(res, error), worksheet, Attach(s, error))
        ELSE IF m.tool THEN register(res, worksheet, m.schema)
        ELSE register(rows.res, worksheet,
                      [m.schema EXCEPT !.fields = rows.fields, !.iri = Iri(i)])

InitPar == Init /\ wbClass = "refs"

\* line 484
Construct ==
    /\ \E p \in Procs :
        /\ par.at[p] = "init"
        /\ LET c == construct(par.heap)
           IN  par' = [par EXCEPT !.heap = c.heap, !.ref[p] = c.ref,
                                  !.at[p] = "read", !.actor = p]
    /\ UNCHANGED <<grid, wbClass, pc, sheet, used, nRows, ws, row, table, schema, fields,
                   fieldCache, conditions, conditionCache, xlsxResult, last,
                   thrown, escaped, ops>>

\* lines 486-488, and 500-507 when workbook.read raises
ReadWorkbook ==
    /\ \E p \in Procs, thr \in {FALSE, TRUE} :
        /\ par.at[p] = "read"
        /\ par' = IF thr
                  THEN [par EXCEPT
                            !.heap[par.ref[p]] = parseCatch(@).res,
                            !.failed[p] = TRUE,
                            !.at[p] = "returned", !.actor = p]
                  ELSE [par EXCEPT !.at[p] = "sheets", !.actor = p]
    /\ UNCHANGED <<grid, wbClass, pc, sheet, used, nRows, ws, row, table, schema, fields,
                   fieldCache, conditions, conditionCache, xlsxResult, last,
                   thrown, escaped, ops>>

\* lines 489-498, one worksheet
ParseSheet ==
    /\ \E p \in Procs, in \in ParSheets :
        /\ par.at[p] = "sheets"
        /\ Len(par.inputs[p]) < MaxSheets
        /\ par' = [par EXCEPT
                    !.heap[par.ref[p]] =
                        sheetTurn(@, Len(par.inputs[p]) + 1, in.w, in.cells),
                    !.inputs[p] = Append(@, in),
                    !.actor = p]
    /\ UNCHANGED <<grid, wbClass, pc, sheet, used, nRows, ws, row, table, schema, fields,
                   fieldCache, conditions, conditionCache, xlsxResult, last,
                   thrown, escaped, ops>>

\* line 499
ReturnResult ==
    /\ \E p \in Procs :
        /\ par.at[p] = "sheets"
        /\ par' = [par EXCEPT !.at[p] = "returned", !.actor = p]
    /\ UNCHANGED <<grid, wbClass, pc, sheet, used, nRows, ws, row, table, schema, fields,
                   fieldCache, conditions, conditionCache, xlsxResult, last,
                   thrown, escaped, ops>>

NextPar ==
    \/ Construct
    \/ ReadWorkbook
    \/ ParseSheet
    \/ ReturnResult

SpecPar == InitPar /\ [][NextPar]_vars

----------------------------------------------------------------------------
(* parseSheet on a worksheet given cell by cell, with its range *)

\* range.s of every worksheet: the first column and the first row
RangeStart == [c |-> 1, r |-> 1]

\* The worksheets: the rows before row h are blank, row h holds the field
\* headers from the first column on, in the order of HeaderOrder, and every
\* row after it up to MaxRow is a field row of type String; range.e is on, before
\* or after the last row and the last header
HeaderRows == {1, 2}

GridSheets ==
    [h : HeaderRows,
     e : [c : (Len(HeaderOrder) - 1)..(Len(HeaderOrder) + 1), r : 1..(MaxRow + 1)]]

\* worksheet.getValue(col, row)
getValue(w, col, r) ==
    IF r = w.h /\ col \in 1..Len(HeaderOrder) THEN HeaderOrder[col]
    ELSE IF r > w.h /\ r <= MaxRow /\ col = getCol([cols |-> FieldHeaders], "Field Type")
    THEN "String"
    ELSE ""

\* table.isFieldHeader(title)
isFieldHeader(title) == title \in FieldHeaders

\* loops that also run for the index equal to the end of the range
inRange_Inclusive(i, end) == i <= end

\* lines 528, 541, 587 and 597: the loop conditions `row < range.e.r` and
\* `col < endCol`
inRange(i, end) == i < end

\* the cell of loop `op` at (col, r)
Cell(op, col, r) == [op |-> op, col |-> col, row |-> r]

\* lines 515-526: the schema, range and table of a worksheet, row = startRow
GetRange ==
    /\ grid.at = "init"
    /\ \E w \in GridSheets :
        grid' = [grid EXCEPT
                    !.at = "rows", !.h = w.h, !.e = w.e, !.row = RangeStart.r,
                    !.schema = [NewSchema EXCEPT !.name = WsName(1),
                                                 !.category = POLICY]]
    /\ UNCHANGED <<wbClass, pc, sheet, used, nRows, ws, row, table, schema, fields,
                   fieldCache, conditions, conditionCache, xlsxResult, last,
                   thrown, escaped, ops, par>>

\* lines 528-539, one row: the loop stops at the row whose first cell is a
\* field header
ScanRow ==
    /\ grid.at = "rows"
    /\ inRange(grid.row, grid.e.r)
    /\ LET title == getValue(grid, RangeStart.c, grid.row)
       IN  grid' = [grid EXCEPT
                        !.visited = @ \cup {Cell("row", RangeStart.c, grid.row)},
                        !.at = IF isFieldHeader(title) THEN "cols" ELSE @,
                        !.col = IF isFieldHeader(title) THEN RangeStart.c ELSE @,
                        !.row = IF isFieldHeader(title) THEN @ ELSE @ + 1]
    /\ UNCHANGED <<wbClass, pc, sheet, used, nRows, ws, row, table, schema, fields,
                   fieldCache, conditions, conditionCache, xlsxResult, last,
                   thrown, escaped, ops, par>>

\* line 528 when the condition fails: the loop ends without a header row
EndRows ==
    /\ grid.at = "rows"
    /\ ~inRange(grid.row, grid.e.r)
    /\ grid' = [grid EXCEPT !.at = "cols", !.col = RangeStart.c]
    /\ UNCHANGED <<wbClass, pc, sheet, used, nRows, ws, row, table, schema, fields,
                   fieldCache, conditions, conditionCache, xlsxResult, last,
                   thrown, escaped, ops, par>>

\* lines 541-546, one column of the row at which the row loop stopped
ScanCol ==
    /\ grid.at = "cols"
    /\ inRange(grid.col, grid.e.c)
    /\ LET value == getValue(grid, grid.col, grid.row)
       IN  grid' = [grid EXCEPT
                        !.visited = @ \cup {Cell("col", grid.col, grid.row)},
                        !.table.cols = IF isFieldHeader(value) THEN @ \cup {value}
                                       ELSE @,
                        !.col = @ + 1]
    /\ UNCHANGED <<wbClass, pc, sheet, used, nRows, ws, row, table, schema, fields,
                   fieldCache, conditions, conditionCache, xlsxResult, last,
                   thrown, escaped, ops, par>>

\* lines 548-584 after the column loop: the header check, table.setEnd, the
\* metadata (no schema header has a row in these worksheets) and
\* row = table.end.r + 1
CheckHeaders ==
    /\ grid.at = "cols"
    /\ ~inRange(grid.col, grid.e.c)
    /\ LET errorHeader == getErrorHeader(grid.table)
           error == XlsxError("Invalid headers. Header " \o errorHeader \o " not set.",
                              WsName(1), -1)
           m == readMetadata(grid.schema, grid.table, NoSheet)
       IN  grid' = IF errorHeader # Null
                   THEN [grid EXCEPT !.res = addError(@, error),
                                     !.schema = Attach(@, error),
                                     !.at = "done"]
                   ELSE [grid EXCEPT !.end = grid.row, !.schema = m.schema,
                                     !.row = grid.row + 1, !.at = "fields"]
    /\ UNCHANGED <<wbClass, pc, sheet, used, nRows, ws, row, table, schema, fields,
                   fieldCache, conditions, conditionCache, xlsxResult, last,
                   thrown, escaped, ops, par>>

\* lines 587-593, one row: readField reads the cells of the row in the
\* columns of the required headers
ReadFieldRow ==
    /\ grid.at = "fields"
    /\ inRange(grid.row, grid.e.r)
    /\ LET type == getValue(grid, getCol(grid.table, "Field Type"), grid.row)
           o == readField(grid.res, WsName(1), grid.row,
                          FieldCell(type, Undef, "none"))
       IN  grid' = [grid EXCEPT
                        !.visited = @ \cup {Cell("field", getCol(grid.table, t), grid.row) :
                                                t \in RequiredHeaders},
                        !.res = o.res,
                        !.fields = IF o.returned THEN Append(@, o.field) ELSE @,
                        !.row = @ + 1]
    /\ UNCHANGED <<wbClass, pc, sheet, used, nRows, ws, row, table, schema, fields,
                   fieldCache, conditions, conditionCache, xlsxResult, last,
                   thrown, escaped, ops, par>>

\* line 587 when the condition fails, line 595
EndFieldRows ==
    /\ grid.at = "fields"
    /\ ~inRange(grid.row, grid.e.r)
    /\ grid' = [grid EXCEPT !.at = "conds", !.row = grid.end + 1]
    /\ UNCHANGED <<wbClass, pc, sheet, used, nRows, ws, row, table, schema, fields,
                   fieldCache, conditions, conditionCache, xlsxResult, last,
                   thrown, escaped, ops, par>>

\* lines 597-609, one row: the visibility cells of these worksheets are empty,
\* so that readCondition reads the cell and returns no condition
ReadConditionRow ==
    /\ grid.at = "conds"
    /\ inRange(grid.row, grid.e.r)
    /\ LET o == readCondition(grid.res, grid.table, grid.fields,
                              {grid.fields[k].name : k \in 1..Len(grid.fields)},
                              <<>>, <<>>, WsName(1), grid.row,
                              CondCell("empty", NoFormula, "none"))
       IN  grid' = [grid EXCEPT
                        !.visited = @ \cup {Cell("cond", getCol(grid.table, "Visibility"),
                                                 grid.row)},
                        !.res = o.res,
                        !.fields = o.fields,
                        !.row = @ + 1]
    /\ UNCHANGED <<wbClass, pc, sheet, used, nRows, ws, row, table, schema, fields,
                   fieldCache, conditions, conditionCache, xlsxResult, last,
                   thrown, escaped, ops, par>>

\* line 597 when the condition fails, lines 611-614
Update ==
    /\ grid.at = "conds"
    /\ ~inRange(grid.row, grid.e.r)
    /\ grid' = [grid EXCEPT !.at = "done",
                            !.schema = [@ EXCEPT !.fields = grid.fields,
                                                 !.iri = Iri(1)]]
    /\ UNCHANGED <<wbClass, pc, sheet, used, nRows, ws, row, table, schema, fields,
                   fieldCache, conditions, conditionCache, xlsxResult, last,
                   thrown, escaped, ops, par>>

InitGrid == Init /\ wbClass = "refs"

NextGrid ==
    \/ GetRange
    \/ ScanRow
    \/ EndRows
    \/ ScanCol
    \/ CheckHeaders
    \/ ReadFieldRow
    \/ EndFieldRows
    \/ ReadConditionRow
    \/ Update

SpecGrid == InitGrid /\ [][NextGrid]_vars

----------------------------------------------------------------------------
(* Properties *)

\* the fields of the schemas of a result, as <<schema, field>> places
FieldPlaces(res) ==
    {<<i, j>> \in (1..Len(res.schemas)) \X (1..MaxSize) :
        j <= Len(res.schemas[i].fields)}

FieldAt(res, p) == res.schemas[p[1]].fields[p[2]]

ErrorsOf(res, worksheet) ==
    SelectSeq(res.errors, LAMBDA e : e.worksheet = worksheet)

MissingHeader(w) == ~(RequiredHeaders \subseteq w.cols)

InvalidHeaders(e) ==
    \E h \in RequiredHeaders :
        e.text = "Invalid headers. Header " \o h \o " not set."

HasToolMeta(w) == Truthy(w.tool) \/ Truthy(w.toolId)

IsLinkId(t) == t \in {LinkId(n) : n \in 0..MaxSize}

\* C1: when a required header is missing from a worksheet whose header rows
\* were scanned, getErrorHeader() is not null, and parseSheet returns a schema
\* with zero fields, still named after the worksheet and of category POLICY (no
\* metadata was read), no field or condition row having been read, with
\* exactly one error recorded for the worksheet, the "Invalid headers" one,
\* attached to the schema; the schema keeps zero fields in the result.
C1_MissingHeaderOneError ==
    /\ (pc \in {"validate", "register"} /\ MissingHeader(ws) /\ table = Scan(ws)) =>
        /\ getErrorHeader(table) # Null
        /\ (pc = "register") =>
            /\ schema.fields = <<>>
            /\ fields = <<>>
            /\ conditionCache = <<>>
            /\ row = 0
            /\ schema.name = WsName(sheet)
            /\ schema.category = POLICY
            /\ schema.messageId = Undef
            /\ Len(ErrorsOf(xlsxResult, WsName(sheet))) = 1
            /\ InvalidHeaders(ErrorsOf(xlsxResult, WsName(sheet))[1])
            /\ schema.errors = ErrorsOf(xlsxResult, WsName(sheet))
    /\ \A k \in 1..Len(xlsxResult.schemas) :
        (\E n \in 1..Len(xlsxResult.schemas[k].errors) :
            InvalidHeaders(xlsxResult.schemas[k].errors[n])) =>
                /\ xlsxResult.schemas[k].fields = <<>>
                /\ Len(xlsxResult.schemas[k].errors) = 1

\* C1 witness: the second worksheet lacks a header, has tool metadata beside
\* it, and parseSheet has returned its schema
C1_Witness ==
    /\ pc = "register"
    /\ sheet = 2
    /\ MissingHeader(ws)
    /\ HasToolMeta(ws)
    /\ Len(schema.errors) = 1

\* C2 as stated: every worksheet whose metadata holds a tool name or a tool
\* message id comes out of parseSheet as a TOOL schema with that message id and
\* zero fields.
C2_ToolMetaAlwaysTool ==
    (pc = "register" /\ HasToolMeta(ws)) =>
        /\ schema.category = TOOL
        /\ schema.messageId = ws.toolId
        /\ schema.fields = <<>>

\* C2 amended: a worksheet that passes header validation, is read without an
\* exception and whose metadata holds a tool name or a tool message id comes out
\* of parseSheet as a TOOL schema with that message id and zero fields, straight
\* after the metadata (no field or condition row read); the driver registers
\* a TOOL schema in the tool registry and the caches, and no schema of the
\* result's schemas is a TOOL schema.
C2_ValidToolSheet ==
    /\ (pc = "register" /\ HasToolMeta(ws) /\ schema.errors = <<>>) =>
        /\ schema.category = TOOL
        /\ schema.messageId = ws.toolId
        /\ schema.fields = <<>>
        /\ fields = <<>>
        /\ last.op = "meta"
    /\ \A k \in 1..Len(xlsxResult.schemas) :
        xlsxResult.schemas[k].category = POLICY
    /\ (last.op = "register" /\ schema.category = TOOL) =>
        /\ WsName(sheet) \in DOMAIN xlsxResult.schemaWorksheetCache
        /\ xlsxResult.schemaWorksheetCache[WsName(sheet)].toolId = schema.messageId
        /\ schema.messageId \in DOMAIN xlsxResult.toolsCache

\* C2 witness: a tool worksheet was registered beside a schema
C2_Witness ==
    /\ last.op = "register"
    /\ schema.category = TOOL
    /\ schema.messageId = "0.0.555"
    /\ Len(xlsxResult.schemas) = 1
    /\ "0.0.555" \in DOMAIN xlsxResult.toolsCache

\* whether getSubSchema finds a cache entry with an IRI for a field
Resolvable(res, f) ==
    /\ f.type \in DOMAIN res.linkCache
    /\ LinkCacheEntry(res, res.linkCache[f.type]).found
    /\ Truthy(LinkCacheEntry(res, res.linkCache[f.type]).cache.iri)

\* C3 as stated: a resolution pass leaves every reference-typed field whose
\* link has no cache entry with an IRI with type null and one more error, the
\* "Sub-schema not found" one; a resolved field gets the IRI and no error; every
\* other field is unchanged.
C3_UnresolvedTypeNull ==
    [][last'.op = "updateSchemas" =>
        \A p \in FieldPlaces(xlsxResult) :
            LET f == FieldAt(xlsxResult, p)
                g == FieldAt(xlsxResult', p)
                error == XlsxError("Sub-schema (" \o f.type \o ") not found.", "", -1)
            IN  IF ~f.isRef \/ f.type = "#GeoJSON" THEN g = f
                ELSE IF Resolvable(xlsxResult, f)
                THEN /\ g.type = LinkCacheEntry(xlsxResult,
                                    xlsxResult.linkCache[f.type]).cache.iri
                     /\ g.errors = f.errors
                ELSE /\ g.type = Null
                     /\ g.errors = Append(f.errors, error)]_vars

\* C4 as stated: the conditions of a schema hold at most one condition for each
\* pair of a driving field and a comparison value.
C4_OneConditionPerPair ==
    \A k \in 1..Len(xlsxResult.schemas) :
        LET cs == xlsxResult.schemas[k].conditions
        IN  \A a, b \in 1..Len(cs) :
                (a # b /\ cs[a].field # Undef) =>
                    ~(cs[a].field = cs[b].field /\ cs[a].value = cs[b].value)

FailedTexts ==
    {"Failed to parse file.", "Failed to parse sheet.", "Failed to parse field.",
     "Failed to parse params.", "Failed to parse condition."}

\* the "Failed to parse ..." errors of a result
Failures(res) ==
    SelectSeq(res.errors, LAMBDA e : e.text \in FailedTexts)

\* C5: no exception is propagated out of parseSheet or out of parse; while
\* parse has not returned it has a next step to take; and every step in which
\* an exception is raised (loading the workbook, scanning headers, reading
\* metadata, a field, its parameters or a condition, building the schema) adds
\* exactly one "Failed to parse ..." error, as the last error of the result.
C5_NoExceptionEscapes ==
    /\ [](escaped = "none")
    /\ [](pc # "returned" => ENABLED Next)
    /\ [][thrown' > thrown =>
            /\ Len(Failures(xlsxResult')) = Len(Failures(xlsxResult)) + 1
            /\ xlsxResult'.errors[Len(xlsxResult'.errors)].text \in FailedTexts]_vars

\* C5 witness: parse returned after three exceptions, one of them raised in
\* the catch clause of readCondition
C5_Witness ==
    /\ pc = "returned"
    /\ thrown = 3
    /\ Len(xlsxResult.errors) = 2
    /\ escaped = "none"

\* the IRI of the first entry found for a link, looking in the order: the
\* worksheet cache under the link's worksheet, the name cache under the plain
\* name, the name cache under the tool-qualified name
FirstEntryIri(res, link) ==
    LET keys == <<link.worksheet, link.name, "tool-schema:" \o link.name>>
        maps == <<res.schemaWorksheetCache, res.schemaNameCache, res.schemaNameCache>>
        hits == {k \in 1..3 : Truthy(keys[k]) /\ keys[k] \in DOMAIN maps[k]}
        first == CHOOSE k \in hits : \A m \in hits : k <= m
    IN  IF hits = {} THEN Undef ELSE maps[first][keys[first]].iri

\* C6: a resolution pass gives every reference-typed field that holds a link id
\* the IRI of the first cache entry found in the order worksheet key, plain
\* name, tool-qualified name (undefined when no entry is found or the entry
\* found has no IRI).
C6_LookupOrder ==
    [][last'.op = "updateSchemas" =>
        \A p \in FieldPlaces(xlsxResult) :
            LET f == FieldAt(xlsxResult, p)
                iri == FirstEntryIri(xlsxResult, xlsxResult.linkCache[f.type])
            IN  (f.isRef /\ f.type \in DOMAIN xlsxResult.linkCache) =>
                    FieldAt(xlsxResult', p).type = IF Truthy(iri) THEN iri ELSE Undef]_vars

\* C6 witness: after a resolution pass, a link whose worksheet and whose plain
\* name lead to entries with different IRIs, and a field resolved to the IRI of
\* the worksheet's entry
C6_Witness ==
    /\ last.op = "updateSchemas"
    /\ \E id \in DOMAIN xlsxResult.linkCache :
        LET link == xlsxResult.linkCache[id]
        IN  /\ Truthy(link.worksheet)
            /\ link.worksheet \in DOMAIN xlsxResult.schemaWorksheetCache
            /\ link.name \in DOMAIN xlsxResult.schemaNameCache
            /\ Truthy(xlsxResult.schemaWorksheetCache[link.worksheet].iri)
            /\ Truthy(xlsxResult.schemaNameCache[link.name].iri)
            /\ xlsxResult.schemaWorksheetCache[link.worksheet].iri
                    # xlsxResult.schemaNameCache[link.name].iri
            /\ \E p \in FieldPlaces(xlsxResult) :
                FieldAt(xlsxResult, p).type
                    = xlsxResult.schemaWorksheetCache[link.worksheet].iri

\* C7 as stated: when parse has returned, no field of a schema of the result
\* has a placeholder link id as its type.
C7_NoPlaceholderAtReturn ==
    (pc = "returned") =>
        \A p \in FieldPlaces(xlsxResult) : ~IsLinkId(FieldAt(xlsxResult, p).type)

\* C7 amended: parse returns without running the resolution pass: when it has
\* returned and the host has made no call yet, every reference-typed field
\* (but a GeoJSON one) still has as its type a placeholder link id of the link
\* cache; once the host's updateSchemas has gone through the schemas, no field
\* has a placeholder link id as its type.
C7_ResolutionIsTheHosts ==
    /\ (pc = "returned" /\ ops = 0) =>
        \A p \in FieldPlaces(xlsxResult) :
            LET f == FieldAt(xlsxResult, p)
            IN  (f.isRef /\ f.type # "#GeoJSON") =>
                    /\ IsLinkId(f.type)
                    /\ f.type \in DOMAIN xlsxResult.linkCache
    /\ (last.op = "updateSchemas") =>
        \A p \in FieldPlaces(xlsxResult) : ~IsLinkId(FieldAt(xlsxResult, p).type)

\* C7 witness: parse has returned a schema with a field that holds a link id
C7_Witness ==
    /\ pc = "returned"
    /\ ops = 0
    /\ \E p \in FieldPlaces(xlsxResult) :
        /\ FieldAt(xlsxResult, p).isRef
        /\ IsLinkId(FieldAt(xlsxResult, p).type)

\* C8: a field row whose type cell is empty, read without an exception being
\* raised by a cell read, gives a field object (pushed to the fields of the
\* sheet) whose type is null, and exactly one "Unknown field type." error for
\* that row, in the result and attached to the field.
C8_EmptyTypeOneError ==
    (last.op = "readField" /\ last.label = "" /\ last.thr = "none") =>
        LET error == XlsxError("Unknown field type.", WsName(sheet), last.row)
        IN  /\ last.returned
            /\ fields # <<>>
            /\ fields[Len(fields)].name = Path(last.row)
            /\ fields[Len(fields)].type = Null
            /\ fields[Len(fields)].errors = <<error>>
            /\ Cardinality({n \in 1..Len(xlsxResult.errors) :
                                xlsxResult.errors[n] = error}) = 1

\* C8 witness: the second row of a sheet had an empty type cell
C8_Witness ==
    /\ last.op = "readField"
    /\ last.label = ""
    /\ last.thr = "none"
    /\ last.row = 2
    /\ Len(fields) = 2

\* C9 as stated: EXACT with the literal first, alone or inside NOT, parses to
\* the formula condition of EXACT with the reference first: the driving field
\* is the reference, the comparison value the literal.
C9_ArgumentOrderIrrelevant ==
    (/\ last.op = "readCondition"
     /\ last.kind = "formulae"
     /\ last.f.shape \in {"EXACT_SL", "EXACT_LS", "NOT_EXACT_SL", "NOT_EXACT_LS"}) =>
        /\ last.result.type = "formulae"
        /\ last.result.field = last.f.sym
        /\ last.result.value = last.f.lit
        /\ last.result.invert = (last.f.shape \in {"NOT_EXACT_SL", "NOT_EXACT_LS"})

\* the shapes of the grammar: TRUE, FALSE, EXACT and NOT(EXACT)
Grammar ==
    {"TRUE", "FALSE", "EXACT_SL", "EXACT_LS", "NOT_EXACT_SL", "NOT_EXACT_LS"}

\* C10 as stated: a formula (not the empty one) outside the grammar makes
\* parseCondition raise: readCondition returns no condition and adds one
\* "Failed to parse condition." error for the row.
C10_OtherShapesFail ==
    (/\ last.op = "readCondition"
     /\ last.kind = "formulae"
     /\ last.f.shape \notin Grammar \cup {"EMPTY"}) =>
        /\ last.result.type = "error"
        /\ ~last.returned
        /\ xlsxResult.errors # <<>>
        /\ xlsxResult.errors[Len(xlsxResult.errors)]
                = XlsxError("Failed to parse condition.", WsName(sheet), last.row)

\* the IRI of the first member of schemas with the name, undefined without one
MemberIri(schemas, name) ==
    LET named == {k \in 1..Len(schemas) : schemas[k].name = name}
    IN  IF named = {} THEN Undef
        ELSE schemas[CHOOSE k \in named : \A m \in named : k <= m].iri

\* what C11 says of a reference cache before and after updateTool
BackFilled(before, after, tool, schemas) ==
    /\ DOMAIN after = DOMAIN before
    /\ \A k \in DOMAIN before :
        /\ after[k].name = before[k].name
        /\ after[k].toolId = before[k].toolId
        /\ after[k].iri = IF before[k].toolId = tool.messageId
                          THEN MemberIri(schemas, before[k].name)
                          ELSE before[k].iri

\* C11: updateTool(tool, schemas) leaves in the tool registry, under
\* tool.messageId, the uuid and name of the tool, adds the tool to the tools,
\* and gives every entry of the worksheet cache and of the name cache whose
\* toolId is tool.messageId the IRI of the member of schemas with the entry's
\* name (undefined without such a member); the other entries keep theirs.
C11_UpdateToolBackFills ==
    [][last'.op = "updateTool" =>
        /\ \E tool \in PolicyTools, schemas \in ToolSchemas :
                xlsxResult' = updateTool(xlsxResult, tool, schemas)
        /\ \A tool \in PolicyTools, schemas \in ToolSchemas :
            xlsxResult' = updateTool(xlsxResult, tool, schemas) =>
                /\ xlsxResult'.toolsCache[tool.messageId] = tool
                /\ xlsxResult'.tools = Append(xlsxResult.tools, tool)
                /\ BackFilled(xlsxResult.schemaWorksheetCache,
                              xlsxResult'.schemaWorksheetCache, tool, schemas)
                /\ BackFilled(xlsxResult.schemaNameCache,
                              xlsxResult'.schemaNameCache, tool, schemas)]_vars

\* C11 witness: updateTool has replaced the stub of the tool 0.0.555 and given
\* the IRI of the tool's schema A to the entries of worksheet W1 and of the
\* name tool-schema:A
C11_Witness ==
    /\ last.op = "updateTool"
    /\ "0.0.555" \in DOMAIN xlsxResult.toolsCache
    /\ xlsxResult.toolsCache["0.0.555"].uuid = "uuid-T"
    /\ "W1" \in DOMAIN xlsxResult.schemaWorksheetCache
    /\ xlsxResult.schemaWorksheetCache["W1"].toolId = "0.0.555"
    /\ xlsxResult.schemaWorksheetCache["W1"].iri = "#tool_A"
    /\ "tool-schema:A" \in DOMAIN xlsxResult.schemaNameCache
    /\ xlsxResult.schemaNameCache["tool-schema:A"].iri = "#tool_A"

\* the cache entry a link by worksheet (a hyperlink on some label) finds
ByWorksheet(res, worksheet) ==
    LinkCacheEntry(res, [name |-> "label", worksheet |-> worksheet])

\* the cache entry a link that names only a schema name finds
ByName(res, name) == LinkCacheEntry(res, [name |-> name, worksheet |-> Null])

\* the cache entry the driver registers for the output of a worksheet
Registered(s) ==
    IF s.category = TOOL
    THEN [name |-> s.name, iri |-> Undef, toolId |-> s.messageId]
    ELSE [name |-> s.name, iri |-> s.iri, toolId |-> Undef]

\* C12 as stated: right after the driver registered the output of a worksheet
\* (addSchema or addTool), a link that names the worksheet and a link that
\* names only the schema name find the same cache entry.
C12_BothLinksSameEntry ==
    (last.op = "register") =>
        /\ ByWorksheet(xlsxResult, WsName(sheet)).found
        /\ ByName(xlsxResult, schema.name).found
        /\ ByWorksheet(xlsxResult, WsName(sheet)).cache
                = ByName(xlsxResult, schema.name).cache

\* C12 amended: right after addSchema, the link by worksheet and the link by
\* name both find the entry just registered. Right after addTool, the link by
\* worksheet finds the entry just registered, which is also the entry of the
\* name cache under tool-schema:<name>; the link by name finds it when the name
\* cache has no entry under the plain name, and finds the entry under the plain
\* name otherwise.
C12_RegisteredUnderBoth ==
    (last.op = "register") =>
        LET byWs == ByWorksheet(xlsxResult, WsName(sheet))
            byName == ByName(xlsxResult, schema.name)
            tq == "tool-schema:" \o schema.name
        IN  /\ byWs.found
            /\ byWs.cache = Registered(schema)
            /\ byName.found
            /\ IF schema.category = TOOL
               THEN /\ tq \in DOMAIN xlsxResult.schemaNameCache
                    /\ xlsxResult.schemaNameCache[tq] = Registered(schema)
                    /\ byName.cache =
                            IF schema.name \in DOMAIN xlsxResult.schemaNameCache
                            THEN xlsxResult.schemaNameCache[schema.name]
                            ELSE Registered(schema)
               ELSE byName.cache = Registered(schema)

\* C12 witness: the tool worksheet W2 declaring the tool schema A has been
\* registered after a schema with another name, and the link by the name A
\* finds the tool's entry
C12_Witness ==
    /\ last.op = "register"
    /\ sheet = 2
    /\ schema.category = TOOL
    /\ schema.name = "A"
    /\ Len(xlsxResult.schemas) = 1
    /\ "A" \notin DOMAIN xlsxResult.schemaNameCache
    /\ ByName(xlsxResult, "A").cache = Registered(schema)

\* a result with errors only, the last of them the whole-document error
ErrorsOnly(res) ==
    /\ res.schemas = <<>>
    /\ res.tools = <<>>
    /\ DOMAIN res.toolsCache = {}
    /\ DOMAIN res.schemaWorksheetCache = {}
    /\ DOMAIN res.schemaNameCache = {}
    /\ DOMAIN res.linkCache = {}
    /\ res.errors # <<>>
    /\ res.errors[Len(res.errors)] = XlsxError("Failed to parse file.", "", -1)

\* C13: when an exception has reached the catch clause of parse, the result
\* returned has errors only: no schema, no tool, empty caches, and the "Failed
\* to parse file." error; and whatever parse has accumulated in the result,
\* its catch clause turns the result into one with errors only, keeping the
\* errors recorded before.
C13_WholeDocumentFailure ==
    /\ (last.op = "load" /\ thrown > 0) =>
        /\ pc = "returned"
        /\ ErrorsOnly(xlsxResult)
    /\ ErrorsOnly(parseCatch(xlsxResult).res)
    /\ SubSeq(parseCatch(xlsxResult).res.errors, 1, Len(xlsxResult.errors))
            = xlsxResult.errors

\* C13 witness: workbook.read raised and parse returned the result
C13_Witness ==
    /\ last.op = "load"
    /\ pc = "returned"
    /\ thrown = 1
    /\ xlsxResult.errors = <<XlsxError("Failed to parse file.", "", -1)>>

\* a schema with one unresolved reference, as a later parse would register it
LaterSchema ==
    [name |-> "A", category |-> POLICY, messageId |-> Undef, iri |-> "#iri_9",
     fields |-> <<[NewField EXCEPT !.name = "G1", !.type = "link_0",
                                   !.isRef = TRUE]>>,
     conditions |-> <<>>, errors |-> <<>>]

\* the operations of XlsxResult run on a result after clear()
ResultOps == {"addError", "addTool", "addSchema", "updateTool", "updateSchemas"}

Apply(res, o) ==
    CASE o = "addError" -> addError(res, XlsxError("Unknown field type.", "W1", 1))
      [] o = "addTool" -> addTool(res, "W1", "A", "0.0.555")
      [] o = "addSchema" -> addSchema(res, "W2", "A", LaterSchema)
      [] o = "updateTool" ->
            updateTool(res, [uuid |-> "uuid-T", name |-> "T", messageId |-> "0.0.555"],
                       <<[name |-> "A", iri |-> "#tool_A"]>>)
      [] OTHER -> updateSchemas(res)

RECURSIVE Run(_, _)
Run(res, S) == IF S = <<>> THEN res ELSE Run(Apply(res, Head(S)), Tail(S))

\* the sequences of at most two operations
OpSeqs ==
    {<<>>} \cup {<<a>> : a \in ResultOps} \cup {<<a, b>> : a, b \in ResultOps}

\* C14 as stated: on the result parse returned and the host worked on,
\* clear() followed by a sequence of operations gives the toJson() output
\* that the sequence gives on a new XlsxResult.
C14_ClearIsFresh ==
    (pc = "returned") =>
        \A S \in OpSeqs :
            toJson(Run(clear(xlsxResult), S)) = toJson(Run(NewResult, S))

\* C14 amended: clear() empties the schemas, the tools and the four caches and
\* keeps the errors: clear() followed by a sequence of operations gives the
\* schemas and tools that the sequence gives on a new XlsxResult, and as errors
\* the errors recorded before clear() followed by those the sequence records
\* on a new XlsxResult.
C14_ClearKeepsErrors ==
    (pc = "returned") =>
        \A S \in OpSeqs :
            LET cleared == toJson(Run(clear(xlsxResult), S))
                fresh == toJson(Run(NewResult, S))
            IN  /\ cleared.schemas = fresh.schemas
                /\ cleared.tools = fresh.tools
                /\ cleared.errors = xlsxResult.errors \o fresh.errors

\* C14 witness: the result parse returned holds a schema, a tool stub, a link
\* and an error
C14_Witness ==
    /\ pc = "returned"
    /\ xlsxResult.schemas # <<>>
    /\ DOMAIN xlsxResult.toolsCache # {}
    /\ DOMAIN xlsxResult.linkCache # {}
    /\ xlsxResult.errors # <<>>

SheetError(worksheet) == XlsxError("Failed to parse sheet.", worksheet, -1)

\* the number of times an error is in a list of errors
Times(errors, error) ==
    Cardinality({n \in 1..Len(errors) : errors[n] = error})

C16_RegistryUnlessParameter ==
    (last.op = "readField" /\ Recognized(last.label) /\ last.thr = "none") =>
        LET f == fields[Len(fields)]
            e == FieldTypes[TypeKey(last.label)]
        IN  /\ f.format = e.format
            /\ f.pattern = e.pattern
            /\ IF ~Truthy(last.param) THEN f.unit = e.unit
               ELSE /\ last.label \in {"Prefix", "Postfix"} => f.unit = last.param
                    /\ last.label = "Enum" => f.enum = Split(last.param)
                    /\ last.label = "Help Text" => f.font = xlsxToFont(last.param)

\* C16 amended: a row with a recognized type label, read without an
\* exception, gives a field whose format and pattern are the registry's. The
\* unit of a Prefix or Postfix field is the parameter when the parameter cell
\* is set and the unit of the answer cell's number format otherwise; the unit
\* of any other field is the registry's. The enum of an Enum field is the
\* lines of the parameter when it is set and the validation list of the answer
\* cell otherwise; the font of a Help Text field is that of the parameter when
\* it is set and that of the question cell's styling otherwise. A parameter
\* replaces the value derived from the cell and changes no other attribute.
C16_ParameterOverrides ==
    (last.op = "readField" /\ Recognized(last.label) /\ last.thr = "none") =>
        LET f == fields[Len(fields)]
            e == FieldTypes[TypeKey(last.label)]
            set == Truthy(last.param)
        IN  /\ last.returned
            /\ f.type = e.type
            /\ f.format = e.format
            /\ f.pattern = e.pattern
            /\ f.unit = IF last.label \in {"Prefix", "Postfix"}
                        THEN (IF set THEN last.param ELSE xlsxToUnit(AnswerFormat))
                        ELSE e.unit
            /\ f.enum = IF last.label = "Enum"
                        THEN (IF set THEN Split(last.param) ELSE AnswerList)
                        ELSE <<>>
            /\ f.font = IF last.label = "Help Text"
                        THEN xlsxToFont(IF set THEN last.param ELSE QuestionStyle)
                        ELSE Undef
            /\ f.errors = <<>>

\* C16 witness: a Prefix row with the parameter kg, after an Enum row without
\* a parameter
C16_Witness ==
    /\ last.op = "readField"
    /\ last.label = "Prefix"
    /\ last.param = "kg"
    /\ Len(fields) = 2
    /\ fields[1].enum = AnswerList
    /\ fields[2].unit = "kg"

\* the place in the fields of the sheet of the field of a row, 0 without one
FieldOfRow(flds, r) ==
    IF \E k \in 1..Len(flds) : flds[k].name = Path(r)
    THEN CHOOSE k \in 1..Len(flds) : flds[k].name = Path(r)
    ELSE 0

\* C17: reading the visibility cell of a row never turns the hidden flag of a
\* field from true to false; when the result is a constant and the row has a
\* field, a constant false leaves the field of the row hidden, a constant true
\* leaves every field as it was, no other field changes, and no condition is
\* created or returned.
C17_ConstantOnlyHides ==
    [][last'.op = "readCondition" =>
        /\ Len(fields') = Len(fields)
        /\ \A k \in 1..Len(fields) : fields[k].hidden => fields'[k].hidden
        /\ (last'.result.type = "const" /\ FieldOfRow(fields, last'.row) # 0) =>
            LET i == FieldOfRow(fields, last'.row)
            IN  /\ fields'[i].hidden = (fields[i].hidden \/ ~last'.result.cvalue)
                /\ fields' = [fields EXCEPT ![i].hidden = fields'[i].hidden]
                /\ last'.result.cvalue => fields' = fields
                /\ conditions' = conditions
                /\ conditionCache' = conditionCache
                /\ ~last'.returned
                /\ xlsxResult' = xlsxResult]_vars

\* C17 witness: after the condition pass over three rows, the first field is
\* hidden by a constant false, the second, hidden by its type, is still hidden
\* after a constant true, and the third is visible after a constant true
C17_Witness ==
    /\ last.op = "readCondition"
    /\ last.row = 3
    /\ last.result.type = "const"
    /\ last.result.cvalue
    /\ Len(fields) = 3
    /\ fields[1].type = "string" /\ fields[1].hidden
    /\ fields[2].type = "boolean" /\ fields[2].hidden
    /\ ~fields[3].hidden
    /\ conditionCache = <<>>

\* C18 as stated: when the formula of a row names a driving field that is not
\* a field of the worksheet, an error is recorded for the row and attached to
\* the field of the row, no condition is returned for the row, and no
\* condition of the sheet lacks its driving field.
C18_MissingDrivingField ==
    (/\ last.op = "readCondition"
     /\ last.result.type = "formulae"
     /\ last.result.field \notin fieldCache
     /\ FieldOfRow(fields, last.row) # 0) =>
        LET f == fields[FieldOfRow(fields, last.row)]
        IN  /\ f.errors # <<>>
            /\ f.errors[Len(f.errors)].row = last.row
            /\ Times(xlsxResult.errors, f.errors[Len(f.errors)]) > 0
            /\ ~last.returned
            /\ \A k \in 1..Len(conditionCache) :
                    conditions[conditionCache[k]].field # Undef

\* the link ids that are the type of a field, in the schemas of the result and
\* in the fields of the sheet being parsed
LinkedPlaces ==
    {<<"schema", p>> : p \in {q \in FieldPlaces(xlsxResult) :
                                IsLinkId(FieldAt(xlsxResult, q).type)}}
    \cup {<<"sheet", k>> : k \in {m \in 1..Len(fields) :
                                /\ pc \in {"fields", "conds"}
                                /\ IsLinkId(fields[m].type)}}

LinkOf(place) ==
    IF place[1] = "schema" THEN FieldAt(xlsxResult, place[2]).type
    ELSE fields[place[2]].type

\* C19: a field row whose type label is not empty and not in the registry,
\* read without an exception, gives a reference-typed field whose type is a
\* link id that was not in the link cache before, bound in the link cache to
\* the label and to the worksheet of the cell's hyperlink (null without one),
\* every other link staying as it was; and no two fields have the same link id
\* as their type.
C19_FreshLinkPerReference ==
    /\ [][(/\ last'.op = "readField" /\ last'.label # ""
            /\ ~Recognized(last'.label) /\ last'.thr = "none") =>
            LET f == fields'[Len(fields')]
            IN  /\ last'.returned
                /\ Len(fields') = Len(fields) + 1
                /\ f.isRef
                /\ IsLinkId(f.type)
                /\ f.type \notin DOMAIN xlsxResult.linkCache
                /\ DOMAIN xlsxResult'.linkCache
                        = DOMAIN xlsxResult.linkCache \cup {f.type}
                /\ xlsxResult'.linkCache[f.type] =
                        [name |-> last'.label,
                         worksheet |-> IF last'.link = Undef THEN Null
                                       ELSE last'.link]
                /\ \A id \in DOMAIN xlsxResult.linkCache :
                        xlsxResult'.linkCache[id] = xlsxResult.linkCache[id]]_vars
    /\ [](\A a, b \in LinkedPlaces : a # b => LinkOf(a) # LinkOf(b))

\* C19 witness: the second worksheet has a reference field with a hyperlink,
\* after a first worksheet registered with a reference field; the links differ
C19_Witness ==
    /\ last.op = "readField"
    /\ last.label = "A"
    /\ last.link = "W1"
    /\ sheet = 2
    /\ Len(fields) = 1
    /\ Cardinality(LinkedPlaces) = 2
    /\ Cardinality(DOMAIN xlsxResult.linkCache) = 2
    /\ xlsxResult.linkCache[fields[1].type].worksheet = "W1"

\* the errors lists of the entities: the schema and the fields of the sheet
\* being parsed, the schemas of the result and their fields
EntityErrors ==
    {schema.errors}
    \cup {fields[k].errors : k \in 1..Len(fields)}
    \cup {xlsxResult.schemas[k].errors : k \in 1..Len(xlsxResult.schemas)}
    \cup {FieldAt(xlsxResult, p).errors : p \in FieldPlaces(xlsxResult)}

\* C20: every error in the errors list of a schema or of a field is in the
\* error list of the result, at least as many times; and no step removes an
\* error from the list of the result.
C20_AttachedErrorsAreGlobal ==
    /\ [](\A errors \in EntityErrors : \A n \in 1..Len(errors) :
            Times(errors, errors[n]) <= Times(xlsxResult.errors, errors[n]))
    /\ [][/\ Len(xlsxResult'.errors) >= Len(xlsxResult.errors)
           /\ SubSeq(xlsxResult'.errors, 1, Len(xlsxResult.errors))
                = xlsxResult.errors]_vars

\* C20 witness: the parse returned a result with a schema whose field carries
\* an error and a second schema that carries one itself, both errors in the
\* list of the result
C20_Witness ==
    /\ pc = "returned"
    /\ Len(xlsxResult.schemas) = 2
    /\ xlsxResult.schemas[1].errors = <<>>
    /\ Len(xlsxResult.schemas[1].fields) = 1
    /\ xlsxResult.schemas[1].fields[1].errors # <<>>
    /\ xlsxResult.schemas[2].errors # <<>>
    /\ Len(xlsxResult.errors) = 2

\* the steps of parseSheet that may come straight before each of its steps
Before(op) ==
    CASE op = "scan" -> {"load", "register"}
      [] op = "validate" -> {"scan"}
      [] op = "meta" -> {"validate"}
      [] op = "readField" -> {"meta", "readField"}
      [] op = "endFields" -> {"meta", "readField"}
      [] op = "readCondition" -> {"endFields", "readCondition"}
      [] op = "finalize" -> {"endFields", "readCondition"}
      [] OTHER -> {}

SheetOps == {"scan", "validate", "meta", "readField", "endFields",
             "readCondition", "finalize"}

\* C21: the steps of parseSheet follow one another in the order header scan,
\* header validation, metadata and classification, field rows, condition
\* rows, building the schema; a step in which no exception is raised returns
\* the schema to the driver only from header validation with a header missing,
\* from classification as a tool, or from building the schema; the condition
\* rows are read after every field row: reading a condition adds no field, the
\* field cache holds every field of the sheet, and a formula whose driving
\* field lies in a later row than its own finds that field.
C21_ParserStateOrder ==
    /\ [][(last'.op \in SheetOps) => last.op \in Before(last'.op)]_vars
    /\ [][(pc' = "register" /\ pc # "register" /\ thrown' = thrown) =>
            \/ last'.op = "validate" /\ getErrorHeader(table) # Null
            \/ last'.op = "meta" /\ schema'.category = TOOL
            \/ last'.op = "finalize" /\ schema'.iri # Undef]_vars
    /\ [][(last'.op = "readCondition") =>
            /\ fieldCache' = fieldCache
            /\ Len(fields') = Len(fields)
            /\ fieldCache = {fields[k].name : k \in 1..Len(fields)}
            /\ nRows' = nRows
            /\ last'.row <= nRows]_vars
    /\ []((/\ last.op = "readCondition"
           /\ last.result.type = "formulae"
           /\ FieldOfRow(fields, last.row) # 0
           /\ \E r \in (last.row + 1)..nRows :
                /\ last.result.field = Path(r)
                /\ FieldOfRow(fields, r) # 0) =>
            /\ last.returned
            /\ conditionCache # <<>>
            /\ conditions[conditionCache[Len(conditionCache)]].field
                    = last.result.field)

\* C21 witness: the formula of the first row names the field of the second
\* row, and the condition returned has that field as its driving field
C21_Witness ==
    /\ last.op = "readCondition"
    /\ last.row = 1
    /\ last.f = Formula("EXACT_SL", "G2", "X")
    /\ Len(fields) = 2
    /\ last.returned
    /\ conditions[conditionCache[1]].field = "G2"
    /\ conditions[conditionCache[1]].fields = <<[name |-> "G1", invert |-> FALSE]>>

\* the worksheets parsed so far
Parsed == {WsName(k) : k \in 1..sheet}

\* C22: a worksheet is taken up only when the output of the one before it is
\* registered; registering an output and parsing a sheet run no resolution
\* (the fields of the registered schemas stay as they are); the resolution pass
\* runs on the result parse returned, every worksheet parsed being in the
\* worksheet cache; so a field whose link names the worksheet of a schema
\* resolves to the IRI of that schema, the worksheet coming before or after
\* the one of the field.
C22_ResolutionAfterRegistration ==
    /\ [][(last'.op = "scan") =>
            /\ pc = "next"
            /\ DOMAIN xlsxResult.schemaWorksheetCache = Parsed]_vars
    /\ [][(pc' # "returned") =>
            \A p \in FieldPlaces(xlsxResult) :
                FieldAt(xlsxResult', p) = FieldAt(xlsxResult, p)]_vars
    /\ [][(last'.op = "updateSchemas") =>
            /\ pc = "returned"
            /\ (escaped = "none" /\ last.op # "load") =>
                    DOMAIN xlsxResult.schemaWorksheetCache = Parsed
            /\ \A p \in FieldPlaces(xlsxResult), k \in 1..MaxSize :
                LET f == FieldAt(xlsxResult, p)
                IN  (/\ f.isRef
                     /\ f.type \in DOMAIN xlsxResult.linkCache
                     /\ xlsxResult.linkCache[f.type].worksheet = WsName(k)
                     /\ WsName(k) \in DOMAIN xlsxResult.schemaWorksheetCache
                     /\ xlsxResult.schemaWorksheetCache[WsName(k)].iri = Iri(k)) =>
                        FieldAt(xlsxResult', p).type = Iri(k)]_vars

\* C22 witness: the field of the first worksheet links to the second
\* worksheet and the field of the second to the first; after the resolution
\* pass each has the IRI of the other's schema
C22_Witness ==
    /\ last.op = "updateSchemas"
    /\ ops = 1
    /\ Len(xlsxResult.schemas) = 2
    /\ xlsxResult.schemas[1].iri = Iri(1)
    /\ xlsxResult.schemas[2].iri = Iri(2)
    /\ Len(xlsxResult.schemas[1].fields) = 1
    /\ Len(xlsxResult.schemas[2].fields) = 1
    /\ DOMAIN xlsxResult.linkCache = {"link_0", "link_1"}
    /\ xlsxResult.linkCache["link_0"].worksheet = "W2"
    /\ xlsxResult.linkCache["link_1"].worksheet = "W1"
    /\ xlsxResult.schemas[1].fields[1].type = Iri(2)
    /\ xlsxResult.schemas[2].fields[1].type = Iri(1)

RECURSIVE RunSheets(_, _, _)
\* the result a parse on its own builds from the worksheets, from the i-th on
RunSheets(res, inputs, i) ==
    IF i > Len(inputs) THEN res
    ELSE RunSheets(sheetTurn(res, i, inputs[i].w, inputs[i].cells), inputs, i + 1)

\* the result of a parse invocation running alone
Solo(inputs, failed) ==
    IF failed THEN parseCatch(NewResult).res ELSE RunSheets(NewResult, inputs, 1)

\* the XlsxResult a started invocation works on
ResultOf(p) == par.heap[par.ref[p]]

\* C23: two parse invocations interleaved at their await points work on two
\* XlsxResult objects; a step of one leaves the object of the other (schemas,
\* tools, errors, caches, links) as it was; and the result of each is at every
\* point the one the invocation builds running alone, its link ids numbered
\* from link_0.
C23_IndependentInstances ==
    /\ []((par.ref[1] # 0 /\ par.ref[2] # 0) => par.ref[1] # par.ref[2])
    /\ [](\A p \in Procs : par.ref[p] # 0 =>
            ResultOf(p) = Solo(par.inputs[p], par.failed[p]))
    /\ [][\A p \in Procs : (par.ref[p] # 0 /\ par'.actor # p) =>
            /\ par'.ref[p] = par.ref[p]
            /\ par'.heap[par.ref[p]] = par.heap[par.ref[p]]]_vars

\* C23 witness: both invocations have parsed a worksheet with a reference
\* field between each other's steps; each result has one schema and the one
\* link link_0, with different targets
C23_Witness ==
    /\ par.ref[1] # 0 /\ par.ref[2] # 0
    /\ par.at[1] = "sheets" /\ par.at[2] = "returned"
    /\ Len(par.inputs[1]) = 2 /\ Len(par.inputs[2]) = 1
    /\ par.actor = 1
    /\ DOMAIN ResultOf(1).linkCache = {"link_0"}
    /\ DOMAIN ResultOf(2).linkCache = {"link_0"}
    /\ ResultOf(1).linkCache["link_0"].worksheet = Null
    /\ ResultOf(2).linkCache["link_0"].worksheet = "W1"
    /\ Len(ResultOf(1).schemas) = 1
    /\ DOMAIN ResultOf(1).toolsCache = {"0.0.555"}
    /\ Len(ResultOf(2).errors) = 1

\* C24: a field row read without an exception gives a reference-typed field
\* no examples; a field that is not reference-typed and whose type label is the
\* auto-calculate marker no examples and no error, whatever its answer cell
\* holds; any other field the examples of its answer cell, honouring the array
\* flag, when the cell is not empty and no examples when it is empty.
C24_ExamplesFromAnswer ==
    [][(last'.op = "readField" /\ last'.thr = "none") =>
        LET f == fields'[Len(fields')]
        IN  /\ last'.returned
            /\ Len(fields') = Len(fields) + 1
            /\ IF f.isRef THEN f.examples = <<>>
               ELSE IF last'.label = AUTO_CALCULATE
               THEN /\ f.examples = <<>>
                    /\ f.errors = <<>>
                    /\ xlsxResult'.errors = xlsxResult.errors
               ELSE /\ (f.examples # <<>>) <=> (last'.answer # "")
                    /\ (last'.answer # "") =>
                            f.examples = xlsxToArray(last'.answer, f.isArray)]_vars

\* C24 witness: an auto-calculate row with an answer gave a field without
\* examples, after an array field with two examples and a reference field with
\* an answer and no examples
C24_Witness ==
    /\ last.op = "readField"
    /\ last.label = AUTO_CALCULATE
    /\ last.answer = "a,b"
    /\ Len(fields) = 3
    /\ fields[1].isArray /\ fields[1].examples = <<"a", "b">>
    /\ fields[2].isRef /\ IsLinkId(fields[2].type) /\ fields[2].examples = <<>>
    /\ ~fields[3].isRef /\ fields[3].examples = <<>> /\ fields[3].errors = <<>>
    /\ xlsxResult.errors = <<>>

\* whether a field holds a link that leads to a cache entry of the tool
ToolRef(res, f, tool) ==
    /\ f.isRef
    /\ f.type \in DOMAIN res.linkCache
    /\ LinkCacheEntry(res, res.linkCache[f.type]).found
    /\ LinkCacheEntry(res, res.linkCache[f.type]).cache.toolId = tool.messageId

NotFound(type) == XlsxError("Sub-schema (" \o type \o ") not found.", "", -1)

\* C25: on the result parse returned, for a field whose link leads to a cache
\* entry of a tool: updateTool for the tool followed by updateSchemas gives the
\* field the IRI of the tool's schema of the entry's name; updateSchemas before
\* any updateTool gives it no IRI and the "Sub-schema not found" error of its
\* link id, and updateTool followed by another updateSchemas then still gives
\* it no IRI, and a second error, the field no longer holding its link id. A
\* resolution pass gives such a field an IRI only after an updateTool.
C25_ToolBeforeResolution ==
    /\ []((pc = "returned") =>
            \A tool \in PolicyTools, schemas \in ToolSchemas,
               p \in FieldPlaces(xlsxResult) :
                LET f == FieldAt(xlsxResult, p)
                    e == LinkCacheEntry(xlsxResult, xlsxResult.linkCache[f.type])
                    iri == MemberIri(schemas, e.cache.name)
                    toolFirst == updateSchemas(updateTool(xlsxResult, tool, schemas))
                    first == updateSchemas(xlsxResult)
                    again == updateSchemas(updateTool(first, tool, schemas))
                IN  ToolRef(xlsxResult, f, tool) =>
                        /\ FieldAt(toolFirst, p).type
                                = IF Truthy(iri) THEN iri ELSE Undef
                        /\ ~Truthy(e.cache.iri) =>
                            /\ FieldAt(first, p).type = Undef
                            /\ FieldAt(first, p).errors
                                    = Append(f.errors, NotFound(f.type))
                            /\ ~IsLinkId(FieldAt(first, p).type)
                            /\ first.linkCache = xlsxResult.linkCache
                            /\ FieldAt(again, p).type = Undef
                            /\ FieldAt(again, p).errors
                                    = FieldAt(first, p).errors \o <<NotFound(Undef)>>)
    /\ [][(last'.op = "updateSchemas") =>
            \A tool \in PolicyTools, p \in FieldPlaces(xlsxResult) :
                (/\ ToolRef(xlsxResult, FieldAt(xlsxResult, p), tool)
                 /\ Truthy(FieldAt(xlsxResult', p).type)) =>
                    xlsxResult.tools # <<>>]_vars

\* C25 witness: updateSchemas ran first and updateTool after it: the field
\* that linked to the tool worksheet has no type and the error, the cache entry
\* of the worksheet now has the IRI of the tool's schema, and another
\* updateSchemas leaves the field without a type
C25_Witness ==
    /\ last.op = "updateTool"
    /\ ops = 2
    /\ "W1" \in DOMAIN xlsxResult.schemaWorksheetCache
    /\ xlsxResult.schemaWorksheetCache["W1"].iri = "#tool_A"
    /\ DOMAIN xlsxResult.linkCache = {"link_0"}
    /\ xlsxResult.linkCache["link_0"].worksheet = "W1"
    /\ Len(xlsxResult.schemas) = 1
    /\ Len(xlsxResult.schemas[1].fields) = 1
    /\ xlsxResult.schemas[1].fields[1].type = Undef
    /\ xlsxResult.schemas[1].fields[1].errors = <<NotFound("link_0")>>
    /\ updateSchemas(xlsxResult).schemas[1].fields[1].type = Undef

\* whether a cache has an entry under a key
Has(cache, key) == Truthy(key) /\ key \in DOMAIN cache

\* a cache entry without IRI that is not the entry of a tool
Unfinished(cache) == cache.iri = Undef /\ cache.toolId = Undef

\* whether parseSheet returned the schema from header validation or from its
\* catch clause
FailedSheet(s, worksheet) ==
    \E n \in 1..Len(s.errors) :
        InvalidHeaders(s.errors[n]) \/ s.errors[n] = SheetError(worksheet)

\* C26: the schema of a worksheet that failed header validation or raised an
\* exception in parseSheet has no IRI and is registered by addSchema: it is the
\* last of the schemas of the result, and the worksheet cache under the
\* worksheet and the name cache under the schema's name hold an entry with its
\* name and no IRI. The schemas without IRI are the ones that carry an error. A
\* resolution pass leaves every field whose link leads to such an entry
\* without a type, with the "Sub-schema not found" error of its link id.
C26_FailedSheetRegistered ==
    /\ [][(last'.op = "register" /\ FailedSheet(schema, WsName(sheet))) =>
            /\ schema.iri = Undef
            /\ schema.category = POLICY
            /\ xlsxResult' = addSchema(xlsxResult, WsName(sheet), schema.name, schema)
            /\ xlsxResult'.schemas = Append(xlsxResult.schemas, schema)
            /\ xlsxResult'.schemaWorksheetCache[WsName(sheet)]
                    = [name |-> schema.name, iri |-> Undef, toolId |-> Undef]
            /\ xlsxResult'.schemaNameCache[schema.name]
                    = [name |-> schema.name, iri |-> Undef, toolId |-> Undef]]_vars
    /\ [](\A k \in 1..Len(xlsxResult.schemas) :
            (xlsxResult.schemas[k].iri = Undef) <=> (xlsxResult.schemas[k].errors # <<>>))
    /\ [][(last'.op = "updateSchemas") =>
            \A p \in FieldPlaces(xlsxResult) :
                LET f == FieldAt(xlsxResult, p)
                    e == LinkCacheEntry(xlsxResult, xlsxResult.linkCache[f.type])
                IN  (/\ f.isRef
                     /\ f.type \in DOMAIN xlsxResult.linkCache
                     /\ e.found
                     /\ Unfinished(e.cache)) =>
                        /\ FieldAt(xlsxResult', p).type = Undef
                        /\ FieldAt(xlsxResult', p).errors
                                = Append(f.errors, NotFound(f.type))]_vars

\* C26 witness: the first worksheet raised an exception; its schema is in the
\* schemas and in both caches without IRI, and the two fields of the second
\* worksheet, which referred to it by hyperlink and by name, have no type
\* after the resolution pass
C26_Witness ==
    /\ last.op = "updateSchemas"
    /\ Len(xlsxResult.schemas) = 2
    /\ xlsxResult.schemas[1].errors = <<SheetError("W1")>>
    /\ xlsxResult.schemas[1].iri = Undef
    /\ xlsxResult.schemas[2].iri = Iri(2)
    /\ Has(xlsxResult.schemaWorksheetCache, "W1")
    /\ Has(xlsxResult.schemaNameCache, "W1")
    /\ Unfinished(xlsxResult.schemaWorksheetCache["W1"])
    /\ Unfinished(xlsxResult.schemaNameCache["W1"])
    /\ Len(xlsxResult.schemas[2].fields) = 2
    /\ DOMAIN xlsxResult.linkCache = {"link_0", "link_1"}
    /\ xlsxResult.linkCache["link_0"] = [name |-> "A", worksheet |-> "W1"]
    /\ xlsxResult.linkCache["link_1"] = [name |-> "W1", worksheet |-> Null]
    /\ xlsxResult.schemas[2].fields[1].type = Undef
    /\ xlsxResult.schemas[2].fields[2].type = Undef
    /\ xlsxResult.schemas[2].fields[2].errors = <<NotFound("link_1")>>

\* C27: a resolution pass leaves without a type, and with the "Sub-schema not
\* found" error of its link id, every field whose link names a worksheet that
\* has a worksheet-cache entry without IRI, whatever the name cache holds under
\* the link's name, and every field whose link finds no worksheet entry and
\* whose plain name has a name-cache entry without IRI, whatever the name
\* cache holds under the tool-qualified name.
C27_EntryWithoutIriShadows ==
    [][(last'.op = "updateSchemas") =>
        \A p \in FieldPlaces(xlsxResult) :
            LET f == FieldAt(xlsxResult, p)
                link == xlsxResult.linkCache[f.type]
                wsHit == Has(xlsxResult.schemaWorksheetCache, link.worksheet)
                nameHit == Has(xlsxResult.schemaNameCache, link.name)
                failed == /\ FieldAt(xlsxResult', p).type = Undef
                          /\ FieldAt(xlsxResult', p).errors
                                = Append(f.errors, NotFound(f.type))
            IN  (f.isRef /\ f.type \in DOMAIN xlsxResult.linkCache) =>
                    /\ (/\ wsHit
                         /\ ~Truthy(xlsxResult.schemaWorksheetCache[link.worksheet].iri))
                            => failed
                    /\ (/\ ~wsHit
                         /\ nameHit
                         /\ ~Truthy(xlsxResult.schemaNameCache[link.name].iri))
                            => failed]_vars

\* C27 witness: after updateTool gave the tool-qualified name A its IRI, the
\* resolution pass left the field that names A without a type: the name cache
\* holds under the plain name A the entry, without IRI, of a worksheet that
\* raised an exception; a link to that worksheet is shadowed in the same way
C27_Witness ==
    /\ last.op = "updateSchemas"
    /\ ops = 2
    /\ Has(xlsxResult.schemaNameCache, "A")
    /\ xlsxResult.schemaNameCache["A"].iri = Undef
    /\ Has(xlsxResult.schemaNameCache, "tool-schema:A")
    /\ xlsxResult.schemaNameCache["tool-schema:A"].iri = "#tool_A"
    /\ DOMAIN xlsxResult.linkCache = {"link_0"}
    /\ xlsxResult.linkCache["link_0"] = [name |-> "A", worksheet |-> Null]
    /\ \E p \in FieldPlaces(xlsxResult) :
        /\ FieldAt(xlsxResult, p).isRef
        /\ FieldAt(xlsxResult, p).type = Undef
        /\ FieldAt(xlsxResult, p).errors = <<NotFound("link_0")>>
    /\ \E w \in DOMAIN xlsxResult.schemaWorksheetCache :
        /\ xlsxResult.schemaWorksheetCache[w] = xlsxResult.schemaNameCache["A"]
        /\ ~Truthy(LinkCacheEntry(xlsxResult, [name |-> "A", worksheet |-> w]).cache.iri)

\* whether a list of errors begins with another
StartsWith(errors, before) ==
    /\ Len(errors) >= Len(before)
    /\ SubSeq(errors, 1, Len(before)) = before

\* every operation of XlsxResult that changes the object
EveryOp == ResultOps \cup {"clear", "addLink", "addErrors"}

Perform(res, o) ==
    CASE o = "clear" -> clear(res)
      [] o = "addLink" -> addLink(res, "A", Undef)
      [] o = "addErrors" -> addErrors(res, <<XlsxError("Invalid schema.", "W1", 1)>>)
      [] OTHER -> Apply(res, o)

\* C28: no step of the parse or of the host removes or changes an error of
\* the result; on every result reached, each operation of XlsxResult leaves
\* the errors recorded at the head of the list, clear() leaves the list as it
\* is, and toJson() after clear() gives the errors recorded before.
C28_ErrorsOnlyGrow ==
    /\ [][StartsWith(xlsxResult'.errors, xlsxResult.errors)]_vars
    /\ [](\A o \in EveryOp :
            StartsWith(Perform(xlsxResult, o).errors, xlsxResult.errors))
    /\ [](/\ clear(xlsxResult).errors = xlsxResult.errors
          /\ toJson(clear(xlsxResult)).errors = xlsxResult.errors
          /\ toJson(xlsxResult).errors = xlsxResult.errors)

\* C28 witness: workbook.read raised, the catch clause of parse recorded the
\* error and called clear(): the output has the error and nothing else
C28_Witness ==
    /\ last.op = "load"
    /\ pc = "returned"
    /\ toJson(xlsxResult)
            = [schemas |-> <<>>, tools |-> {},
               errors |-> <<XlsxError("Failed to parse file.", "", -1)>>]

\* the entries of a cache that are not those of a tool id
OtherEntries(cache, toolId) == {k \in DOMAIN cache : cache[k].toolId # toolId}

\* C29: updateTool(tool, schemas), for a tool with a message id, leaves as they
\* were every entry of the worksheet cache and of the name cache whose toolId
\* is not the message id, the entries registered by addSchema among them,
\* the keys of both caches, the schemas, the link cache, the errors, and the
\* entries of the tool registry under other message ids.
C29_UpdateToolFrame ==
    [][last'.op = "updateTool" =>
        \A tool \in PolicyTools, schemas \in ToolSchemas :
            xlsxResult' = updateTool(xlsxResult, tool, schemas) =>
                /\ DOMAIN xlsxResult'.schemaWorksheetCache
                        = DOMAIN xlsxResult.schemaWorksheetCache
                /\ DOMAIN xlsxResult'.schemaNameCache
                        = DOMAIN xlsxResult.schemaNameCache
                /\ \A k \in OtherEntries(xlsxResult.schemaWorksheetCache, tool.messageId) :
                        xlsxResult'.schemaWorksheetCache[k]
                            = xlsxResult.schemaWorksheetCache[k]
                /\ \A k \in OtherEntries(xlsxResult.schemaNameCache, tool.messageId) :
                        xlsxResult'.schemaNameCache[k] = xlsxResult.schemaNameCache[k]
                /\ \A k \in 1..Len(xlsxResult.schemas) :
                    /\ xlsxResult.schemas[k].name
                            \in OtherEntries(xlsxResult.schemaNameCache, tool.messageId)
                    /\ xlsxResult.schemaNameCache[xlsxResult.schemas[k].name].toolId = Undef
                /\ xlsxResult'.schemas = xlsxResult.schemas
                /\ xlsxResult'.linkCache = xlsxResult.linkCache
                /\ xlsxResult'.errors = xlsxResult.errors
                /\ DOMAIN xlsxResult'.toolsCache
                        = DOMAIN xlsxResult.toolsCache \cup {tool.messageId}
                /\ \A id \in DOMAIN xlsxResult.toolsCache \ {tool.messageId} :
                        xlsxResult'.toolsCache[id] = xlsxResult.toolsCache[id]]_vars

\* C29 witness: updateTool for the tool 0.0.555 gave its worksheet W3 an IRI;
\* the entry of the schema of W1, the entry of the tool worksheet W2 without
\* tool id, the link of the field of W1 and the stub of W2's tool are as before
C29_Witness ==
    /\ last.op = "updateTool"
    /\ ops = 1
    /\ DOMAIN xlsxResult.schemaWorksheetCache = {"W1", "W2", "W3"}
    /\ xlsxResult.schemaWorksheetCache["W1"]
            = [name |-> "W1", iri |-> Iri(1), toolId |-> Undef]
    /\ xlsxResult.schemaWorksheetCache["W2"]
            = [name |-> "W2", iri |-> Undef, toolId |-> Undef]
    /\ xlsxResult.schemaWorksheetCache["W3"]
            = [name |-> "A", iri |-> "#tool_A", toolId |-> "0.0.555"]
    /\ DOMAIN xlsxResult.toolsCache = {Undef, "0.0.555"}
    /\ xlsxResult.toolsCache[Undef].uuid = Undef
    /\ xlsxResult.toolsCache["0.0.555"].uuid = "uuid-T"
    /\ DOMAIN xlsxResult.linkCache = {"link_0"}
    /\ Len(xlsxResult.schemas) = 1

\* the stub addTool registers for a message id
Stub(id) == [uuid |-> id, name |-> id, messageId |-> id]

\* whether updateTool has run for a message id
Updated(res, id) == \E k \in 1..Len(res.tools) : res.tools[k].messageId = id

\* C30: the tools of the serialized output are one for each message id of
\* the tool registry, and none else; the registry has the message id of every
\* tool worksheet registered, however many worksheets name it, and of every
\* tool given to updateTool; the tool of a message id for which updateTool has
\* not run is the stub whose uuid and name are the message id.
C30_OneToolPerMessageId ==
    /\ [](LET out == toJson(xlsxResult).tools
              ids == DOMAIN xlsxResult.toolsCache
          IN  /\ \A id \in ids : Cardinality({t \in out : t.messageId = id}) = 1
              /\ \A t \in out : t.messageId \in ids
              /\ Cardinality(out) = Cardinality(ids)
              /\ \A id \in ids :
                    (~Updated(xlsxResult, id)) => (xlsxResult.toolsCache[id] = Stub(id))
              /\ \A w \in DOMAIN xlsxResult.schemaWorksheetCache :
                    Truthy(xlsxResult.schemaWorksheetCache[w].toolId) =>
                        (xlsxResult.schemaWorksheetCache[w].toolId \in ids))
    /\ [][/\ (last'.op = "register" /\ schema.category = TOOL) =>
                DOMAIN xlsxResult'.toolsCache
                    = DOMAIN xlsxResult.toolsCache \cup {schema.messageId}
          /\ (last'.op = "updateTool") =>
                \E tool \in PolicyTools :
                    /\ DOMAIN xlsxResult'.toolsCache
                            = DOMAIN xlsxResult.toolsCache \cup {tool.messageId}
                    /\ xlsxResult'.toolsCache[tool.messageId] = tool]_vars

\* C30 witness: parse returned a result for a workbook whose worksheets W1 and
\* W2 name the tool 0.0.555 and whose worksheet W3 names a tool without id;
\* the output lists the stub of 0.0.555 once, and the stub without id
C30_Witness ==
    /\ pc = "returned"
    /\ ops = 0
    /\ DOMAIN xlsxResult.schemaWorksheetCache = {"W1", "W2", "W3"}
    /\ xlsxResult.schemaWorksheetCache["W1"].toolId = "0.0.555"
    /\ xlsxResult.schemaWorksheetCache["W2"].toolId = "0.0.555"
    /\ toJson(xlsxResult).tools = {Stub("0.0.555"), Stub(Undef)}

\* the row at which the row loop of the header scan stops: the header row when
\* it lies before range.e.r, range.e.r itself otherwise
StopRow == IF grid.h < grid.e.r THEN grid.h ELSE grid.e.r

\* the cells the loops named in `loops` have read
VisitedBy(loops) == {v \in grid.visited : v.op \in loops}

\* the header labels in the columns before range.e.c
HeadersBefore(c) == {HeaderOrder[k] : k \in {n \in 1..Len(HeaderOrder) : n < c}}

\* the field rows of the worksheet before range.e.r
FieldRowsBefore(r) == {n \in 1..MaxRow : grid.h < n /\ n < r}

\* C31: the row loop of the header scan, the field loop and the condition loop
\* read only rows strictly before range.e.r, and the column loop only columns
\* strictly before range.e.c; the column loop reads the row at which the row
\* loop stopped, which is the row range.e.r itself when no row before it
\* starts with a field header, so that a header row located on the end row is
\* mapped, passes the header check and yields a schema without fields and
\* without an error. Only headers in columns before range.e.c are mapped, the
\* fields come from the field rows before range.e.r, all of them once the
\* schema is built, and a field row on the end row produces no field.
C31_ExclusiveExceptHeaderRow ==
    (grid.at # "init") =>
        /\ \A v \in VisitedBy({"row", "field", "cond"}) : v.row < grid.e.r
        /\ \A v \in VisitedBy({"col"}) : v.col < grid.e.c /\ v.row = StopRow
        /\ \A v \in VisitedBy({"field", "cond"}) :
                v.row > StopRow /\ v.col \in 1..(grid.e.c - 1)
        /\ grid.table.cols \subseteq HeadersBefore(grid.e.c)
        /\ (grid.at \in {"fields", "conds", "done"}) =>
                grid.table.cols = IF StopRow = grid.h THEN HeadersBefore(grid.e.c)
                                  ELSE {}
        /\ \A k \in 1..Len(grid.fields) :
                grid.fields[k].name \in {Path(n) : n \in FieldRowsBefore(grid.e.r)}
        /\ (grid.at = "done" /\ grid.res.errors = <<>>) =>
                /\ Len(grid.schema.fields) = Cardinality(FieldRowsBefore(grid.e.r))
                /\ (grid.h >= grid.e.r) =>
                        /\ grid.h = grid.e.r
                        /\ Cell("col", 1, grid.e.r) \in grid.visited
                        /\ grid.schema.fields = <<>>

\* C31 witness: parseSheet has built the schema of a worksheet whose headers
\* are all mapped and whose range ends on a field row after the first one: the
\* rows before it gave fields, the row itself none
C31_Witness ==
    /\ grid.at = "done"
    /\ grid.res.errors = <<>>
    /\ grid.e.r <= MaxRow
    /\ getValue(grid, getCol(grid.table, "Field Type"), grid.e.r) = "String"
    /\ Len(grid.schema.fields) >= 1
    /\ \A k \in 1..Len(grid.schema.fields) : grid.schema.fields[k].name # Path(grid.e.r)
    /\ VisitedBy({"field", "cond"}) # {}

\* C31 as stated: every cell the header scan, the field loop and the condition
\* loop read lies in a row strictly before range.e.r and a column strictly
\* before range.e.c, no header of the end column is mapped and no field comes
\* from the end row
C31_AllReadsBeforeEnd ==
    /\ \A v \in grid.visited : v.row < grid.e.r /\ v.col < grid.e.c
    /\ grid.table.cols \subseteq HeadersBefore(grid.e.c)
    /\ \A k \in 1..Len(grid.fields) : grid.fields[k].name # Path(grid.e.r)

====
